---- MODULE Spec2Model ----
(***************************************************************************)
(* Route resolution of the ADS-B viewer (src/server.js): the per-callsign  *)
(* route cache, the per-airline source statistics, the three route source  *)
(* adapters and the resolver fetchRouteForCallsign that orders them.       *)
(*                                                                         *)
(* JavaScript strings are modelled as sequences of one-character strings,  *)
(* so that trim, toUpperCase and the regular expressions are computed.     *)
(***************************************************************************)
EXTENDS Integers, Sequences, FiniteSets, TLC

\* ------------------------------------------------------------------------
\* Bounds of the model
\* ------------------------------------------------------------------------

\* Number of resolveRoute calls started over one behaviour.
MaxStarts == 3

\* The resolutions that can be in flight at the same time on the event loop.
Procs == {"r1", "r2"}

\* ------------------------------------------------------------------------
\* Strings
\* ------------------------------------------------------------------------

LowerLetters ==
  <<"a","b","c","d","e","f","g","h","i","j","k","l","m",
    "n","o","p","q","r","s","t","u","v","w","x","y","z">>

UpperLetters ==
  <<"A","B","C","D","E","F","G","H","I","J","K","L","M",
    "N","O","P","Q","R","S","T","U","V","W","X","Y","Z">>

Digits == {"0","1","2","3","4","5","6","7","8","9"}

Whitespace == {" ", "\t", "\n", "\r"}

IsUpperLetter(ch) == \E i \in 1..26 : UpperLetters[i] = ch

\* String.prototype.toUpperCase, one character.
toUpperChar(ch) ==
  IF \E i \in 1..26 : LowerLetters[i] = ch
    THEN UpperLetters[CHOOSE i \in 1..26 : LowerLetters[i] = ch]
    ELSE ch

\* String.prototype.toUpperCase.
toUpperCase(s) == [i \in 1..Len(s) |-> toUpperChar(s[i])]

RECURSIVE trimStart(_)
trimStart(s) ==
  IF s # <<>> /\ Head(s) \in Whitespace THEN trimStart(Tail(s)) ELSE s

RECURSIVE trimEnd(_)
trimEnd(s) ==
  IF s # <<>> /\ s[Len(s)] \in Whitespace
    THEN trimEnd(SubSeq(s, 1, Len(s) - 1))
    ELSE s

\* String.prototype.trim.
trim(s) == trimEnd(trimStart(s))

\* The run of characters at the start of s that satisfy the class test.
RECURSIVE LeadingUpperLetters(_)
LeadingUpperLetters(s) ==
  IF s # <<>> /\ IsUpperLetter(Head(s))
    THEN <<Head(s)>> \o LeadingUpperLetters(Tail(s))
    ELSE <<>>

\* ------------------------------------------------------------------------
\* Values
\* ------------------------------------------------------------------------

\* A callsign argument that is null or undefined.
NoCallsign == <<"undefined">>

\* JavaScript null, as a route result.
Null == [kind |-> "null"]

\* What reading a missing property of routeCache yields.
Undefined == [kind |-> "undefined"]

\* { originIcao, destinationIcao }
Route(o, d) == [kind |-> "route", originIcao |-> o, destinationIcao |-> d]

defaultOrder == <<"adsbdb", "aerodatabox", "aviationstack">>

Sources == {"adsbdb", "aerodatabox", "aviationstack"}

\* `!s` for a string (or missing) value: the empty string is falsy, and a
\* missing field is modelled as the empty string.
Falsy(s) == s = <<>>

\* `a || b` on such values.
Or(a, b) == IF Falsy(a) THEN b ELSE a

\* The JSON value [] where a payload is expected to carry a string: an
\* object, hence truthy.
EmptyArray == <<"[]">>

\* String(value): a string is itself, and [] joins its elements into the
\* empty string.
String(value) == IF value = EmptyArray THEN <<>> ELSE value

\* ------------------------------------------------------------------------
\* Static tables
\* ------------------------------------------------------------------------

\* ICAO -> IATA airline code, as a set of <<icao, iata>> pairs.
ICAO_TO_IATA ==
  { <<<<"A","C","A">>, <<"A","C">>>>, <<<<"J","Z","A">>, <<"Q","K">>>>,
    <<<<"R","O","U">>, <<"R","V">>>>, <<<<"W","J","A">>, <<"W","S">>>>,
    <<<<"W","E","N">>, <<"W","R">>>>, <<<<"T","S","C">>, <<"T","S">>>>,
    <<<<"P","O","E">>, <<"P","D">>>>, <<<<"Q","T","R">>, <<"Q","R">>>>,
    <<<<"B","A","W">>, <<"B","A">>>>, <<<<"A","F","R">>, <<"A","F">>>>,
    <<<<"D","L","H">>, <<"L","H">>>>, <<<<"K","L","M">>, <<"K","L">>>>,
    <<<<"U","A","L">>, <<"U","A">>>>, <<<<"A","A","L">>, <<"A","A">>>>,
    <<<<"D","A","L">>, <<"D","L">>>>, <<<<"J","B","U">>, <<"B","6">>>>,
    <<<<"S","W","A">>, <<"W","N">>>> }

\* ICAO_TO_IATA[icaoCode], the empty string when there is no entry.
IataOf(icaoCode) ==
  IF \E e \in ICAO_TO_IATA : e[1] = icaoCode
    THEN (CHOOSE e \in ICAO_TO_IATA : e[1] = icaoCode)[2]
    ELSE <<>>

\* ------------------------------------------------------------------------
\* State
\* ------------------------------------------------------------------------

VARIABLES
  routeCache,        \* callsign key -> route or Null; DOMAIN = own properties
  routeSourceStats,  \* airline key -> [source -> success count]
  aerodataboxKey,    \* AERODATABOX_API_KEY is set
  aviationstackKey,  \* AVIATIONSTACK_API_KEY is set
  call,              \* per resolution in flight: the frame of fetchRouteForCallsign
  completed,         \* history: <<callsign argument, value>> of the calls that
                     \* returned a cache entry or the outcome of a resolution
  starts,            \* history: number of calls started
  orderOut           \* order specification: the last call of
                     \* getRouteSourceOrderForAirline, its input and its result

\* --- reference data store ---
VARIABLES
  airportsByIcao,    \* the airport table: not loaded, or ICAO -> {city, countryName}
  countryNameToIso2, \* the country table: not loaded, or country name -> ISO-2
  lookup,            \* per display lookup in flight: the frame of getAirportDisplay
  fetches,           \* history: per dataset, the number of requests issued
  loads,             \* history: per dataset, the outcomes of the completed loads
  lookupStarts       \* history: number of display lookups started

\* --- functions applied on their own ---
VARIABLES
  displayCall,       \* a call of getAirportDisplay on given tables: its
                     \* arguments and, once applied, its result
  adapterCall,       \* a call of one adapter: its source, its callsign key,
                     \* the answers to its requests and, once applied, its result
  formatCall,        \* a call of baseFormatAircraft: the raw coordinates
                     \* and, once applied, the geometry fields of the record
  directionCall,     \* a call of bearingToDirection: the bearing and, once
                     \* applied, the compass point
  csvCall            \* a call of parseCsvLine: the line and, once applied,
                     \* the fields

\* --- the page: public/script.js ---
VARIABLES
  lastAircraft,      \* the list the page displays
  trails,            \* trail key -> the positions of the trail
  markersLayer,      \* the keys of the aircraft that have a marker
  statusText,        \* the text of the status element
  fetchCall          \* the calls of fetchAircraft in the order of their
                     \* issue: the frame of each

resolverVars ==
  <<routeCache, routeSourceStats, aerodataboxKey, aviationstackKey, call,
    completed, starts, orderOut>>

storeVars ==
  <<airportsByIcao, countryNameToIso2, lookup, fetches, loads, lookupStarts>>

\* --- enrichment of a batch ---
VARIABLES
  aircraftList,      \* history: the records as passed to enrichAircraftWithRoutes
  task,              \* per record: the frame of its async task
  enrichOut,         \* the promise enrichAircraftWithRoutes returns
  finished           \* history: the positions of the tasks in the order in
                     \* which they settled

pureVars == <<displayCall, adapterCall, formatCall, directionCall, csvCall>>

browserVars == <<lastAircraft, trails, markersLayer, statusText, fetchCall>>

enrichVars == <<aircraftList, task, enrichOut, finished>>

\* What the resolver leaves alone.
restVars == <<storeVars, pureVars, enrichVars, browserVars>>

\* What the reference data store leaves alone.
notStoreVars == <<resolverVars, pureVars, enrichVars, browserVars>>

vars == <<resolverVars, restVars>>

\* ------------------------------------------------------------------------
\* Statistics and source order
\* ------------------------------------------------------------------------

\* The statistics bucket of a callsign without leading letters.
DEFAULT == <<"D","E","F","A","U","L","T">>

\* A getAirlineKeyFromCallsign that keeps one record per callsign.
getAirlineKeyFromCallsign_perCallsign(callsignKey) ==
  IF Falsy(callsignKey) THEN DEFAULT ELSE callsignKey

\* getAirlineKeyFromCallsign: the leading run of A-Z of the trimmed,
\* upper-cased callsign, or DEFAULT.
getAirlineKeyFromCallsign(callsignKey) ==
  IF Falsy(callsignKey) THEN DEFAULT
  ELSE LET cs == toUpperCase(trim(callsignKey))
           m  == LeadingUpperLetters(cs)
       IN IF m # <<>> THEN m ELSE DEFAULT

ZeroStats == [s \in Sources |-> 0]

\* stats[a] || 0 for the statistics record of an airline key that may be missing.
Count(stats, airlineKey, sourceName) ==
  IF airlineKey \in DOMAIN stats THEN stats[airlineKey][sourceName] ELSE 0

\* A recordRouteSourceSuccess whose counts decay: a success of one source
\* takes one success away from each other source of the airline key.
recordRouteSourceSuccess_decaying(stats, airlineKey, sourceName) ==
  LET base == IF airlineKey \in DOMAIN stats THEN stats[airlineKey] ELSE ZeroStats
      rec  == [s \in Sources |->
                 IF s = sourceName THEN base[s] + 1
                 ELSE IF base[s] > 0 THEN base[s] - 1 ELSE 0]
  IN [a \in DOMAIN stats \cup {airlineKey} |->
        IF a = airlineKey THEN rec ELSE stats[a]]

\* A recordRouteSourceSuccess that also creates the record of DEFAULT.
recordRouteSourceSuccess_withDefault(stats, airlineKey, sourceName) ==
  LET base == IF airlineKey \in DOMAIN stats THEN stats[airlineKey] ELSE ZeroStats
      rec  == [base EXCEPT ![sourceName] = @ + 1]
  IN [a \in DOMAIN stats \cup {airlineKey, DEFAULT} |->
        IF a = airlineKey THEN rec
        ELSE IF a \in DOMAIN stats THEN stats[a] ELSE ZeroStats]

\* A recordRouteSourceSuccess that keeps the record of the airline key only.
recordRouteSourceSuccess_forgetting(stats, airlineKey, sourceName) ==
  LET base == IF airlineKey \in DOMAIN stats THEN stats[airlineKey] ELSE ZeroStats
  IN [a \in {airlineKey} |-> [base EXCEPT ![sourceName] = @ + 1]]

\* A recordRouteSourceSuccess that initialises the record of the airline key
\* on every call.
recordRouteSourceSuccess_reinitialised(stats, airlineKey, sourceName) ==
  [a \in DOMAIN stats \cup {airlineKey} |->
     IF a = airlineKey THEN [ZeroStats EXCEPT ![sourceName] = 1] ELSE stats[a]]

\* recordRouteSourceSuccess: the statistics after the increment.
recordRouteSourceSuccess(stats, airlineKey, sourceName) ==
  LET base == IF airlineKey \in DOMAIN stats THEN stats[airlineKey] ELSE ZeroStats
      rec  == [base EXCEPT ![sourceName] = @ + 1]
  IN [a \in DOMAIN stats \cup {airlineKey} |->
        IF a = airlineKey THEN rec ELSE stats[a]]

\* A comparator with its operands swapped: sa - sb.
compareSources_ascending(stats, a, b) == stats[a] - stats[b]

\* The comparator of the sort in getRouteSourceOrderForAirline: sb - sa.
compareSources(stats, a, b) == stats[b] - stats[a]

\* Array.prototype.sort is stable: an element goes after every element that
\* does not compare greater than it.
RECURSIVE insertSorted(_, _, _)
insertSorted(stats, sorted, x) ==
  IF sorted = <<>> THEN <<x>>
  ELSE IF compareSources(stats, Head(sorted), x) > 0
         THEN <<x>> \o sorted
         ELSE <<Head(sorted)>> \o insertSorted(stats, Tail(sorted), x)

RECURSIVE stableSort(_, _)
stableSort(stats, arr) ==
  IF arr = <<>> THEN <<>>
  ELSE insertSorted(stats, stableSort(stats, SubSeq(arr, 1, Len(arr) - 1)),
                    arr[Len(arr)])

\* A getRouteSourceOrderForAirline that ignores the statistics.
getRouteSourceOrderForAirline_static(airlineKey) == defaultOrder

getRouteSourceOrderForAirline(airlineKey) ==
  IF airlineKey \notin DOMAIN routeSourceStats THEN defaultOrder
  ELSE stableSort(routeSourceStats[airlineKey], defaultOrder)

\* ------------------------------------------------------------------------
\* Route source adapters
\* ------------------------------------------------------------------------

\* parseFlightNumberFromCallsign: /^([A-Z]{2,3})(\d{1,4})$/ on the trimmed,
\* upper-cased callsign. The two classes are disjoint, so the match is the
\* leading letter run (2 or 3 letters) followed by 1 to 4 digits up to the end.
NoParse == [matched |-> FALSE, icaoCode |-> <<>>, flightNumber |-> <<>>]

parseFlightNumberFromCallsign(callsignKey) ==
  IF Falsy(callsignKey) THEN NoParse
  ELSE LET cs      == toUpperCase(trim(callsignKey))
           letters == LeadingUpperLetters(cs)
           rest    == SubSeq(cs, Len(letters) + 1, Len(cs))
       IN IF /\ Len(letters) \in 2..3
             /\ Len(rest) \in 1..4
             /\ \A i \in 1..Len(rest) : rest[i] \in Digits
            THEN [matched |-> TRUE, icaoCode |-> letters, flightNumber |-> rest]
            ELSE NoParse

\* A buildFlightNumberCandidates that also tries the number without prefix.
buildFlightNumberCandidates_bareNumber(callsignKey) ==
  LET parsed == parseFlightNumberFromCallsign(callsignKey)
      first  == parsed.icaoCode \o parsed.flightNumber
      iata   == IataOf(parsed.icaoCode)
      second == iata \o parsed.flightNumber
  IN IF ~parsed.matched THEN <<>>
     ELSE IF ~Falsy(iata) /\ second # first
       THEN <<first, second, parsed.flightNumber>>
     ELSE <<first, parsed.flightNumber>>

\* A buildFlightNumberCandidates that adds the IATA-prefixed form first.
buildFlightNumberCandidates_iataFirst(callsignKey) ==
  LET parsed == parseFlightNumberFromCallsign(callsignKey)
      first  == parsed.icaoCode \o parsed.flightNumber
      iata   == IataOf(parsed.icaoCode)
      second == iata \o parsed.flightNumber
  IN IF ~parsed.matched THEN <<>>
     ELSE IF ~Falsy(iata) /\ second # first THEN <<second, first>>
     ELSE <<first>>

\* buildFlightNumberCandidates: the insertion order of the Set, without the
\* duplicate a Set drops.
buildFlightNumberCandidates(callsignKey) ==
  LET parsed == parseFlightNumberFromCallsign(callsignKey)
      first  == parsed.icaoCode \o parsed.flightNumber
      iata   == IataOf(parsed.icaoCode)
      second == iata \o parsed.flightNumber
  IN IF ~parsed.matched THEN <<>>
     ELSE IF ~Falsy(iata) /\ second # first THEN <<first, second>>
     ELSE <<first>>

\* An airport object of a payload: absent, or an object with the aliased
\* code fields (a missing field is the empty string).
NoAirport ==
  [present |-> FALSE, icao |-> <<>>, icaoCode |-> <<>>, icao_code |-> <<>>,
   airportIcao |-> <<>>]

Airport(icao, icaoCode, icao_code, airportIcao) ==
  [present |-> TRUE, icao |-> icao, icaoCode |-> icaoCode,
   icao_code |-> icao_code, airportIcao |-> airportIcao]

\* `a || b` on airport objects; `{}` stands for the final `|| {}`.
OrAirport(a, b) == IF a.present THEN a ELSE b

EmptyAirport == Airport(<<>>, <<>>, <<>>, <<>>)

\* An adsbdbResult that reads the top-level pair only.
adsbdbResult_topLevelOnly(resp) ==
  IF ~resp.ok THEN Null
  ELSE IF Falsy(resp.origin) \/ Falsy(resp.destination) THEN Null
  ELSE Route(toUpperCase(String(resp.origin)),
             toUpperCase(String(resp.destination)))

\* The body of fetchRouteFromAdsbdb after the response: resp is
\* [ok, origin, destination, hasRoute, routeOrigin, routeDestination].
adsbdbResult(resp) ==
  IF ~resp.ok THEN Null
  ELSE LET useRoute    == (Falsy(resp.origin) \/ Falsy(resp.destination))
                            /\ resp.hasRoute
           origin      == IF useRoute THEN Or(resp.origin, resp.routeOrigin)
                          ELSE resp.origin
           destination == IF useRoute
                            THEN Or(resp.destination, resp.routeDestination)
                            ELSE resp.destination
       IN IF Falsy(origin) \/ Falsy(destination) THEN Null
          ELSE Route(toUpperCase(String(origin)),
                     toUpperCase(String(destination)))

\* One iteration of the candidate loop of fetchRouteFromAeroDataBox after the
\* response: resp is [ok, hasFlights, departure, dep, arrival, arr], the four
\* airport objects being those of flights[0]. Null stands for `continue`.
aerodataboxResult(resp) ==
  IF ~resp.ok \/ ~resp.hasFlights THEN Null
  ELSE LET dep  == OrAirport(resp.departure, OrAirport(resp.dep, EmptyAirport))
           arr  == OrAirport(resp.arrival, OrAirport(resp.arr, EmptyAirport))
           originIcao ==
             Or(dep.icao, Or(dep.icaoCode, Or(dep.icao_code, dep.airportIcao)))
           destinationIcao ==
             Or(arr.icao, Or(arr.icaoCode, Or(arr.icao_code, arr.airportIcao)))
       IN IF Falsy(originIcao) \/ Falsy(destinationIcao) THEN Null
          ELSE Route(toUpperCase(String(originIcao)),
                     toUpperCase(String(destinationIcao)))

\* The body of fetchRouteFromAviationStack after the response: resp is
\* [ok, status, hasFlights, departure, arrival].
aviationstackResult(resp) ==
  IF ~resp.ok \/ ~resp.hasFlights THEN Null
  ELSE LET dep == OrAirport(resp.departure, EmptyAirport)
           arr == OrAirport(resp.arrival, EmptyAirport)
           originIcao      == Or(dep.icao, dep.icao_code)
           destinationIcao == Or(arr.icao, arr.icao_code)
       IN IF Falsy(originIcao) \/ Falsy(destinationIcao) THEN Null
          ELSE Route(toUpperCase(String(originIcao)),
                     toUpperCase(String(destinationIcao)))

\* ------------------------------------------------------------------------
\* What the upstream services may answer
\* ------------------------------------------------------------------------

cyyz == <<"c","y","y","z">>
klax == <<"k","l","a","x">>
CYYZ == <<"C","Y","Y","Z">>
KLAX == <<"K","L","A","X">>
EGLL == <<"E","G","L","L">>

AdsbdbResponse(ok, o, d, hasRoute, ro, rd) ==
  [ok |-> ok, origin |-> o, destination |-> d, hasRoute |-> hasRoute,
   routeOrigin |-> ro, routeDestination |-> rd]

AdsbdbResponses ==
  { AdsbdbResponse(FALSE, <<>>, <<>>, FALSE, <<>>, <<>>),   \* timeout, error status
    AdsbdbResponse(TRUE, <<>>, <<>>, FALSE, <<>>, <<>>),    \* empty payload
    AdsbdbResponse(TRUE, cyyz, klax, FALSE, <<>>, <<>>),    \* top-level pair
    AdsbdbResponse(TRUE, <<>>, <<>>, TRUE, CYYZ, KLAX),     \* nested pair
    AdsbdbResponse(TRUE, cyyz, <<>>, FALSE, <<>>, <<>>),    \* origin only
    AdsbdbResponse(TRUE, cyyz, <<>>, TRUE, <<>>, klax),     \* split over both
    AdsbdbResponse(TRUE, <<>>, <<>>, TRUE, CYYZ, <<>>) }    \* nested origin only

AerodataboxResponse(ok, hasFlights, departure, dep, arrival, arr) ==
  [ok |-> ok, hasFlights |-> hasFlights, departure |-> departure, dep |-> dep,
   arrival |-> arrival, arr |-> arr]

AerodataboxResponses ==
  { AerodataboxResponse(FALSE, FALSE, NoAirport, NoAirport, NoAirport, NoAirport),
    AerodataboxResponse(TRUE, FALSE, NoAirport, NoAirport, NoAirport, NoAirport),
    AerodataboxResponse(TRUE, TRUE, Airport(cyyz, <<>>, <<>>, <<>>), NoAirport,
                        Airport(klax, <<>>, <<>>, <<>>), NoAirport),
    AerodataboxResponse(TRUE, TRUE, NoAirport, Airport(<<>>, CYYZ, <<>>, <<>>),
                        NoAirport, Airport(<<>>, <<>>, <<>>, KLAX)),
    AerodataboxResponse(TRUE, TRUE, Airport(<<>>, <<>>, CYYZ, <<>>), NoAirport,
                        NoAirport, NoAirport),
    AerodataboxResponse(TRUE, TRUE, EmptyAirport, Airport(CYYZ, <<>>, <<>>, <<>>),
                        Airport(KLAX, <<>>, <<>>, <<>>), NoAirport) }

AviationstackResponse(ok, status, hasFlights, departure, arrival) ==
  [ok |-> ok, status |-> status, hasFlights |-> hasFlights,
   departure |-> departure, arrival |-> arrival]

AviationstackResponses ==
  { AviationstackResponse(FALSE, 404, FALSE, NoAirport, NoAirport),
    AviationstackResponse(FALSE, 500, FALSE, NoAirport, NoAirport),
    AviationstackResponse(FALSE, 0, FALSE, NoAirport, NoAirport),
    AviationstackResponse(TRUE, 200, FALSE, NoAirport, NoAirport),
    AviationstackResponse(TRUE, 200, TRUE, Airport(cyyz, <<>>, <<>>, <<>>),
                          Airport(<<>>, <<>>, EGLL, <<>>)),
    AviationstackResponse(TRUE, 200, TRUE, Airport(CYYZ, <<>>, <<>>, <<>>),
                          NoAirport) }

\* ------------------------------------------------------------------------
\* The resolver: fetchRouteForCallsign
\* ------------------------------------------------------------------------

ACA1 == <<"A","C","A","1">>
ACA2 == <<"A","C","A","2">>
aca1Padded == <<" ","a","c","a","1","\t">>

\* The callsign arguments the callers pass.
RawCallsigns ==
  { NoCallsign,
    <<>>,
    <<" ", "\t">>,
    <<"A","C","A","1">>,
    <<" ","a","c","a","1","\t">>,
    <<"A","C","A","2">>,
    <<"4","2">> }

\* A normalisation that keeps the letter case.
normalizeCallsign_keepCase(callsign) == trim(callsign)

\* A normalisation that keeps the surrounding whitespace.
normalizeCallsign_keepSpace(callsign) == toUpperCase(callsign)

\* callsign.trim().toUpperCase()
normalizeCallsign(callsign) == toUpperCase(trim(callsign))

\* A cache test that also answers for a key whose resolution is in flight.
hasOwnProperty_orInFlight(cache, key) ==
  \/ key \in DOMAIN cache
  \/ \E q \in Procs : call[q].pc \in {"http", "resolved"} /\ call[q].key = key

\* Object.prototype.hasOwnProperty.call(routeCache, key)
hasOwnProperty(cache, key) == key \in DOMAIN cache

\* routeCache[key]
cacheGet(cache, key) == IF key \in DOMAIN cache THEN cache[key] ELSE Undefined

\* routeCache[key] = value
cacheSet(cache, key, value) ==
  [k \in DOMAIN cache \cup {key} |-> IF k = key THEN value ELSE cache[k]]

\* A test of the result that every result object passes.
isUsable_nonNull(result) == result # Null

\* A test of the result that no result passes.
isUsable_never(result) == FALSE

\* result && result.originIcao && result.destinationIcao
isUsable(result) ==
  /\ result # Null
  /\ ~Falsy(result.originIcao)
  /\ ~Falsy(result.destinationIcao)

\* The frame of a call of fetchRouteForCallsign that is not running.
IdleCall ==
  [pc |-> "idle", arg |-> <<>>, key |-> <<>>, airlineKey |-> <<>>,
   sourceOrder |-> <<>>, idx |-> 0, candidates |-> <<>>, result |-> Null,
   ret |-> Null, called |-> <<>>, results |-> <<>>, requests |-> 0]

\* The frame after `return value`.
returnFrom(c, value) == [c EXCEPT !.pc = "done", !.ret = value]

\* Adapters that issue their request whether or not their API key is set.
invokeAdapter_ignoringKeys(c, i) ==
  LET source == c.sourceOrder[i]
      c1     == [c EXCEPT !.idx = i, !.called = Append(@, source)]
      cands  == buildFlightNumberCandidates(c.key)
  IN IF source = "aerodatabox" /\ cands = <<>>
       THEN [c1 EXCEPT !.pc = "resolved", !.result = Null]
       ELSE [c1 EXCEPT !.pc = "http", !.requests = @ + 1,
               !.candidates = IF source = "aerodatabox" THEN cands ELSE @]

\* One iteration of the loop over sourceOrder, up to the first await of the
\* adapter it calls: the adapter either has a request in flight ("http") or
\* has already returned ("resolved": no key, or no candidate).
invokeAdapter(c, i) ==
  LET source == c.sourceOrder[i]
      c1     == [c EXCEPT !.idx = i, !.called = Append(@, source)]
      cands  == buildFlightNumberCandidates(c.key)
  IN CASE source = "adsbdb" ->
            [c1 EXCEPT !.pc = "http", !.requests = @ + 1]
       [] source = "aerodatabox" ->
            IF ~aerodataboxKey \/ cands = <<>>
              THEN [c1 EXCEPT !.pc = "resolved", !.result = Null]
              ELSE [c1 EXCEPT !.pc = "http", !.candidates = cands,
                              !.requests = @ + 1]
       [] source = "aviationstack" ->
            IF ~aviationstackKey
              THEN [c1 EXCEPT !.pc = "resolved", !.result = Null]
              ELSE [c1 EXCEPT !.pc = "http", !.requests = @ + 1]

\* An adapter whose promise never resolves: the frame keeps waiting.
adapterReturns_hanging(c, result) == [c EXCEPT !.result = result]

\* A resolution that reads the order of its airline again each time an
\* adapter has returned.
adapterReturns_reordering(c, result) ==
  [c EXCEPT !.pc = "resolved", !.result = result, !.candidates = <<>>,
            !.sourceOrder = getRouteSourceOrderForAirline(c.airlineKey)]

\* The adapter's promise resolves with result.
adapterReturns(c, result) ==
  [c EXCEPT !.pc = "resolved", !.result = result, !.candidates = <<>>]

\* The state of the process after its start.
InitState ==
  /\ routeCache = <<>>
  /\ routeSourceStats = <<>>
  /\ aerodataboxKey \in BOOLEAN
  /\ aviationstackKey \in BOOLEAN
  /\ call = [p \in Procs |-> IdleCall]
  /\ completed = {}
  /\ starts = 0
  /\ orderOut = <<>>
  /\ airportsByIcao = [loaded |-> FALSE, map |-> <<>>]
  /\ countryNameToIso2 = [loaded |-> FALSE, map |-> <<>>]
  /\ lookup = [l \in {"d1", "d2"} |->
                 [pc |-> "idle", icaoCode |-> <<>>,
                  airports |-> [state |-> "none", value |-> <<>>,
                               fetched |-> FALSE, failed |-> FALSE],
                  countries |-> [state |-> "none", value |-> <<>>,
                                fetched |-> FALSE, failed |-> FALSE],
                  ret |-> [kind |-> "null"]]]
  /\ fetches = [airports |-> 0, countries |-> 0]
  /\ loads = [airports |-> {}, countries |-> {}]
  /\ lookupStarts = 0
  /\ aircraftList = <<>>
  /\ task = <<>>
  /\ enrichOut = [status |-> "idle", value |-> <<>>]
  /\ finished = <<>>
  /\ lastAircraft = <<>>
  /\ trails = <<>>
  /\ markersLayer = {}
  /\ statusText = [kind |-> "none"]
  /\ fetchCall = <<>>

Init ==
  /\ InitState
  /\ displayCall = [pc |-> "none"]
  /\ adapterCall = [pc |-> "none"]
  /\ formatCall = [pc |-> "none"]
  /\ directionCall = [pc |-> "none"]
  /\ csvCall = [pc |-> "none"]

\* fetchRouteForCallsign(callsign), from its entry to its first await or to
\* its return.
Start(p, callsign) ==
  /\ call[p].pc = "idle"
  /\ starts < MaxStarts
  /\ starts' = starts + 1
  /\ LET key == IF callsign = NoCallsign THEN <<>> ELSE normalizeCallsign(callsign)
         c0  == [IdleCall EXCEPT !.arg = callsign, !.key = key]
     IN IF callsign = NoCallsign \/ Falsy(callsign) \/ Falsy(key)
          THEN /\ call' = [call EXCEPT ![p] = returnFrom(c0, Null)]
               /\ UNCHANGED <<routeCache, routeSourceStats, completed>>
          ELSE IF hasOwnProperty(routeCache, key)
          THEN /\ call' = [call EXCEPT ![p] = returnFrom(c0, cacheGet(routeCache, key))]
               /\ completed' = completed \cup {<<callsign, cacheGet(routeCache, key)>>}
               /\ UNCHANGED <<routeCache, routeSourceStats>>
          ELSE LET airlineKey == getAirlineKeyFromCallsign(key)
                   c1 == [c0 EXCEPT !.airlineKey = airlineKey,
                            !.sourceOrder = getRouteSourceOrderForAirline(airlineKey)]
               IN /\ call' = [call EXCEPT ![p] = invokeAdapter(c1, 1)]
                  /\ UNCHANGED <<routeCache, routeSourceStats, completed>>
  /\ UNCHANGED <<aerodataboxKey, aviationstackKey, orderOut>>
  /\ UNCHANGED restVars

\* The request of fetchRouteFromAdsbdb completes.
AdsbdbResponds(p, resp) ==
  /\ call[p].pc = "http"
  /\ call[p].sourceOrder[call[p].idx] = "adsbdb"
  /\ call' = [call EXCEPT ![p] = adapterReturns(@, adsbdbResult(resp))]
  /\ UNCHANGED <<routeCache, routeSourceStats, aerodataboxKey, aviationstackKey,
                 completed, starts, orderOut>>
  /\ UNCHANGED restVars

\* The request for the current candidate of fetchRouteFromAeroDataBox
\* completes: the adapter returns a route, goes on to the next candidate, or
\* returns null after the last one.
AerodataboxResponds(p, resp) ==
  /\ call[p].pc = "http"
  /\ call[p].sourceOrder[call[p].idx] = "aerodatabox"
  /\ LET c == call[p]
         r == aerodataboxResult(resp)
     IN call' = [call EXCEPT ![p] =
          IF r # Null THEN adapterReturns(c, r)
          ELSE IF Len(c.candidates) > 1
            THEN [c EXCEPT !.candidates = Tail(@), !.requests = @ + 1]
            ELSE adapterReturns(c, Null)]
  /\ UNCHANGED <<routeCache, routeSourceStats, aerodataboxKey, aviationstackKey,
                 completed, starts, orderOut>>
  /\ UNCHANGED restVars

\* The request of fetchRouteFromAviationStack completes.
AviationstackResponds(p, resp) ==
  /\ call[p].pc = "http"
  /\ call[p].sourceOrder[call[p].idx] = "aviationstack"
  /\ call' = [call EXCEPT ![p] = adapterReturns(@, aviationstackResult(resp))]
  /\ UNCHANGED <<routeCache, routeSourceStats, aerodataboxKey, aviationstackKey,
                 completed, starts, orderOut>>
  /\ UNCHANGED restVars

\* fetchRouteForCallsign resumes after `await`: the rest of the loop
\* iteration, and then either the next iteration up to its await or the code
\* after the loop.
Resume(p) ==
  /\ call[p].pc = "resolved"
  /\ LET c      == [call[p] EXCEPT !.results = Append(@, call[p].result)]
         result == call[p].result
         source == c.sourceOrder[c.idx]
     IN IF isUsable(result)
          THEN /\ routeCache' = cacheSet(routeCache, c.key, result)
               /\ routeSourceStats' =
                    recordRouteSourceSuccess(routeSourceStats, c.airlineKey, source)
               /\ call' = [call EXCEPT ![p] = returnFrom(c, result)]
               /\ completed' = completed \cup {<<c.arg, result>>}
          ELSE IF c.idx < Len(c.sourceOrder)
          THEN /\ call' = [call EXCEPT ![p] = invokeAdapter(c, c.idx + 1)]
               /\ UNCHANGED <<routeCache, routeSourceStats, completed>>
          ELSE /\ routeCache' = cacheSet(routeCache, c.key, Null)
               /\ call' = [call EXCEPT ![p] = returnFrom(c, Null)]
               /\ completed' = completed \cup {<<c.arg, Null>>}
               /\ UNCHANGED routeSourceStats
  /\ UNCHANGED <<aerodataboxKey, aviationstackKey, starts, orderOut>>
  /\ UNCHANGED restVars

\* The caller has taken the value the call returned.
Finish(p) ==
  /\ call[p].pc = "done"
  /\ call' = [call EXCEPT ![p] = IdleCall]
  /\ UNCHANGED <<routeCache, routeSourceStats, aerodataboxKey, aviationstackKey,
                 completed, starts, orderOut>>
  /\ UNCHANGED restVars

Next ==
  \/ \E p \in Procs, callsign \in RawCallsigns : Start(p, callsign)
  \/ \E p \in Procs, resp \in AdsbdbResponses : AdsbdbResponds(p, resp)
  \/ \E p \in Procs, resp \in AerodataboxResponses : AerodataboxResponds(p, resp)
  \/ \E p \in Procs, resp \in AviationstackResponses : AviationstackResponds(p, resp)
  \/ \E p \in Procs : Resume(p)
  \/ \E p \in Procs : Finish(p)

Spec == Init /\ [][Next]_vars

\* ------------------------------------------------------------------------
\* The resolver on malformed and lower-case payloads
\* ------------------------------------------------------------------------

\* The callsigns of the resolutions: one with two flight-number candidates,
\* one with a single candidate.
CacheCallsigns == { ACA1, <<"X","Y","Z","7">> }

\* Answers of adsbdb: a failed request, a pair of lower-case codes, a payload
\* whose origin is [] and a payload without destination.
CacheAdsbdbResponses ==
  { AdsbdbResponse(FALSE, <<>>, <<>>, FALSE, <<>>, <<>>),
    AdsbdbResponse(TRUE, cyyz, klax, FALSE, <<>>, <<>>),
    AdsbdbResponse(TRUE, EmptyArray, klax, FALSE, <<>>, <<>>),
    AdsbdbResponse(TRUE, cyyz, <<>>, FALSE, <<>>, <<>>) }

\* Answers of AeroDataBox: a failed request, a flight with lower-case codes
\* and a flight whose arrival code is [].
CacheAerodataboxResponses ==
  { AerodataboxResponse(FALSE, FALSE, NoAirport, NoAirport, NoAirport, NoAirport),
    AerodataboxResponse(TRUE, TRUE, Airport(cyyz, <<>>, <<>>, <<>>), NoAirport,
                        Airport(klax, <<>>, <<>>, <<>>), NoAirport),
    AerodataboxResponse(TRUE, TRUE, Airport(cyyz, <<>>, <<>>, <<>>), NoAirport,
                        Airport(EmptyArray, <<>>, <<>>, <<>>), NoAirport) }

\* Answers of AviationStack: a failed request, a flight with lower-case codes
\* and a flight whose departure code is [].
CacheAviationstackResponses ==
  { AviationstackResponse(FALSE, 500, FALSE, NoAirport, NoAirport),
    AviationstackResponse(TRUE, 200, TRUE, Airport(cyyz, <<>>, <<>>, <<>>),
                          Airport(klax, <<>>, <<>>, <<>>)),
    AviationstackResponse(TRUE, 200, TRUE, Airport(EmptyArray, <<>>, <<>>, <<>>),
                          Airport(klax, <<>>, <<>>, <<>>)) }

NextCache ==
  \/ \E p \in Procs, callsign \in CacheCallsigns : Start(p, callsign)
  \/ \E p \in Procs, resp \in CacheAdsbdbResponses : AdsbdbResponds(p, resp)
  \/ \E p \in Procs, resp \in CacheAerodataboxResponses :
       AerodataboxResponds(p, resp)
  \/ \E p \in Procs, resp \in CacheAviationstackResponses :
       AviationstackResponds(p, resp)
  \/ \E p \in Procs : Resume(p)
  \/ \E p \in Procs : Finish(p)

SpecCache == Init /\ [][NextCache]_vars

\* ------------------------------------------------------------------------
\* The resolver during an outage of the upstream services
\* ------------------------------------------------------------------------

\* Answers of the three services when an answer is either a failed request
\* (timeout, network error, error status) or a full route: an adapter call
\* then returns null only because its requests failed.
OutageAdsbdbResponses ==
  { AdsbdbResponse(FALSE, <<>>, <<>>, FALSE, <<>>, <<>>),
    AdsbdbResponse(TRUE, <<>>, <<>>, TRUE, CYYZ, KLAX) }

OutageAerodataboxResponses ==
  { AerodataboxResponse(FALSE, FALSE, NoAirport, NoAirport, NoAirport, NoAirport),
    AerodataboxResponse(TRUE, TRUE, NoAirport, Airport(<<>>, CYYZ, <<>>, <<>>),
                        NoAirport, Airport(<<>>, <<>>, <<>>, KLAX)) }

OutageAviationstackResponses ==
  { AviationstackResponse(FALSE, 500, FALSE, NoAirport, NoAirport),
    AviationstackResponse(FALSE, 0, FALSE, NoAirport, NoAirport),
    AviationstackResponse(TRUE, 200, TRUE, Airport(CYYZ, <<>>, <<>>, <<>>),
                          Airport(KLAX, <<>>, <<>>, <<>>)) }

\* Both keys are set and every callsign has flight-number candidates, so
\* every adapter call issues a request.
InitOutage == Init /\ aerodataboxKey /\ aviationstackKey

NextOutage ==
  \/ \E p \in Procs, callsign \in CacheCallsigns : Start(p, callsign)
  \/ \E p \in Procs, resp \in OutageAdsbdbResponses : AdsbdbResponds(p, resp)
  \/ \E p \in Procs, resp \in OutageAerodataboxResponses :
       AerodataboxResponds(p, resp)
  \/ \E p \in Procs, resp \in OutageAviationstackResponses :
       AviationstackResponds(p, resp)
  \/ \E p \in Procs : Resume(p)
  \/ \E p \in Procs : Finish(p)

SpecOutage == InitOutage /\ [][NextOutage]_vars

\* ------------------------------------------------------------------------
\* The source order as a function of the statistics
\* ------------------------------------------------------------------------

\* Largest success count the order specification records per pair.
MaxCount == 2

ACA == <<"A","C","A">>

OrderAirlineKeys == {ACA, DEFAULT}

\* recordRouteSourceSuccess(airlineKey, sourceName), called on its own.
RecordSuccess(airlineKey, sourceName) ==
  /\ Count(routeSourceStats, airlineKey, sourceName) < MaxCount
  /\ routeSourceStats' =
       recordRouteSourceSuccess(routeSourceStats, airlineKey, sourceName)
  /\ UNCHANGED <<routeCache, aerodataboxKey, aviationstackKey, call, completed,
                 starts, orderOut>>
  /\ UNCHANGED restVars

\* getRouteSourceOrderForAirline(airlineKey), called on its own.
ComputeOrder(airlineKey) ==
  /\ orderOut' =
       [airlineKey |-> airlineKey,
        known |-> airlineKey \in DOMAIN routeSourceStats,
        counts |-> [s \in Sources |-> Count(routeSourceStats, airlineKey, s)],
        order |-> getRouteSourceOrderForAirline(airlineKey)]
  /\ UNCHANGED <<routeCache, routeSourceStats, aerodataboxKey, aviationstackKey,
                 call, completed, starts>>
  /\ UNCHANGED restVars

NextOrder ==
  \/ \E a \in OrderAirlineKeys, s \in Sources : RecordSuccess(a, s)
  \/ \E a \in OrderAirlineKeys : ComputeOrder(a)

SpecOrder == Init /\ [][NextOrder]_vars

\* ------------------------------------------------------------------------
\* CSV utilities
\* ------------------------------------------------------------------------

\* The characters of a string literal.
Chars(str) == [i \in 1..Len(str) |-> SubSeq(str, i, i)]

\* The loop of parseCsvLine from index i (1-based) on, with the field being
\* collected, the quote state and the fields pushed so far.
RECURSIVE parseCsvFrom(_, _, _, _, _)
parseCsvFrom(line, i, current, inQuotes, result) ==
  IF i > Len(line) THEN Append(result, current)
  ELSE IF line[i] = "\""
    THEN IF inQuotes /\ i + 1 <= Len(line) /\ line[i + 1] = "\""
           THEN parseCsvFrom(line, i + 2, Append(current, "\""), inQuotes, result)
           ELSE parseCsvFrom(line, i + 1, current, ~inQuotes, result)
  ELSE IF line[i] = "," /\ ~inQuotes
    THEN parseCsvFrom(line, i + 1, <<>>, inQuotes, Append(result, current))
  ELSE parseCsvFrom(line, i + 1, Append(current, line[i]), inQuotes, result)

\* A parseCsvLine that starts inside quotes.
parseCsvLine_startInQuotes(line) == parseCsvFrom(line, 1, <<>>, TRUE, <<>>)

\* parseCsvLine(line): the loop from the first character, outside quotes.
parseCsvLine(line) == parseCsvFrom(line, 1, <<>>, FALSE, <<>>)

\* text.split(/\r?\n/): the pieces between the line feeds, a carriage return
\* right before a line feed belonging to the separator.
splitLines(text) ==
  LET nl       == {i \in 1..Len(text) : text[i] = "\n"}
      n        == Cardinality(nl)
      pos(k)   == CHOOSE i \in nl : Cardinality({j \in nl : j < i}) = k - 1
      start(k) == IF k = 1 THEN 1 ELSE pos(k - 1) + 1
      stop(k)  == IF k = n + 1 THEN Len(text)
                  ELSE IF pos(k) > start(k) /\ text[pos(k) - 1] = "\r"
                    THEN pos(k) - 2
                    ELSE pos(k) - 1
  IN [k \in 1..(n + 1) |-> SubSeq(text, start(k), stop(k))]

\* cols[idx] for a 0-based index; a missing element (undefined) is modelled
\* as the empty string, both being falsy.
colAt(cols, idx) == IF idx + 1 \in 1..Len(cols) THEN cols[idx + 1] ELSE <<>>

\* Array.prototype.indexOf, 0-based, -1 when there is no such element.
indexOf(cols, x) ==
  IF \E i \in 1..Len(cols) : cols[i] = x
    THEN (CHOOSE i \in 1..Len(cols) :
            cols[i] = x /\ \A j \in 1..(i - 1) : cols[j] # x) - 1
    ELSE -1

\* map[key] = value on a plain object.
setProperty(map, key, value) ==
  [k \in DOMAIN map \cup {key} |-> IF k = key THEN value ELSE map[k]]

\* ------------------------------------------------------------------------
\* Airport and country tables
\* ------------------------------------------------------------------------

\* A table that is still null.
NotLoaded == [loaded |-> FALSE, map |-> <<>>]

\* A table that holds an object, possibly without any property.
Loaded(map) == [loaded |-> TRUE, map |-> map]

\* A test that takes a table without any property for a table not loaded.
isSet_nonEmpty(table) == table.loaded /\ table.map # <<>>

\* `if (table)`: an object is truthy even when it is empty.
isSet(table) == table.loaded

\* The loop over the lines of the airport file.
RECURSIVE airportRows(_, _)
airportRows(lines, map) ==
  IF lines = <<>> THEN map
  ELSE LET line == Head(lines)
           cols == parseCsvLine(line)
           icao == colAt(cols, 5)
       IN IF Falsy(trim(line)) \/ Len(cols) < 6 \/ Falsy(icao)
            THEN airportRows(Tail(lines), map)
            ELSE airportRows(Tail(lines),
                   setProperty(map, toUpperCase(icao),
                     [city |-> colAt(cols, 2), countryName |-> colAt(cols, 3)]))

\* The loop over the lines of the country file after its header.
RECURSIVE countryRows(_, _, _, _)
countryRows(lines, codeIdx, nameIdx, map) ==
  IF lines = <<>> THEN map
  ELSE LET line == trim(Head(lines))
           cols == parseCsvLine(line)
           code == colAt(cols, codeIdx)
           name == colAt(cols, nameIdx)
       IN IF Falsy(line) \/ Falsy(code) \/ Falsy(name)
            THEN countryRows(Tail(lines), codeIdx, nameIdx, map)
            ELSE countryRows(Tail(lines), codeIdx, nameIdx,
                             setProperty(map, name, code))

\* A response of a file request: resp is [ok, isText, text]. A failed request
\* (timeout, network error, error status) has ok = FALSE; a body that is not
\* a string makes text.split throw.
FileResponse(ok, isText, text) == [ok |-> ok, isText |-> isText, text |-> text]

\* The try block of loadAirportDb after the response, and its catch block:
\* the value assigned to airportsByIcao.
airportsFromResponse(resp) ==
  IF ~resp.ok \/ ~resp.isText THEN Loaded(<<>>)
  ELSE Loaded(airportRows(splitLines(resp.text), <<>>))

\* The try block of loadCountryDb after the response, and its catch block:
\* the value assigned to countryNameToIso2.
countriesFromResponse(resp) ==
  IF ~resp.ok \/ ~resp.isText THEN Loaded(<<>>)
  ELSE LET lines      == splitLines(resp.text)
           headerCols == parseCsvLine(Head(lines))
       IN Loaded(countryRows(Tail(lines), indexOf(headerCols, Chars("code")),
                             indexOf(headerCols, Chars("name")), <<>>))

\* A display name, as opposed to null.
Str(s) == [kind |-> "string", value |-> s]

\* A getAirportDisplay that prefers the country name to the ISO-2 code.
getAirportDisplay_countryNameFirst(icaoCode, airports, countries) ==
  IF Falsy(icaoCode) THEN Null
  ELSE IF toUpperCase(icaoCode) \notin DOMAIN airports THEN Null
  ELSE LET info == airports[toUpperCase(icaoCode)]
       IN IF Falsy(info.city) /\ Falsy(info.countryName) THEN Null
          ELSE IF ~Falsy(info.city) /\ ~Falsy(info.countryName)
            THEN Str(info.city \o <<",", " ">> \o info.countryName)
          ELSE IF ~Falsy(info.city) THEN Str(info.city)
          ELSE Str(info.countryName)

\* getAirportDisplay as a function of its argument and of the two objects
\* that `await Promise.all([loadAirportDb(), loadCountryDb()])` yields. A
\* missing argument is modelled as the empty string, both being falsy.
getAirportDisplay(icaoCode, airports, countries) ==
  IF Falsy(icaoCode) THEN Null
  ELSE IF toUpperCase(icaoCode) \notin DOMAIN airports THEN Null
  ELSE LET info        == airports[toUpperCase(icaoCode)]
           city        == info.city
           countryName == info.countryName
           iso2        == IF countryName \in DOMAIN countries
                            THEN countries[countryName] ELSE <<>>
       IN IF Falsy(city) /\ Falsy(countryName) THEN Null
          ELSE IF ~Falsy(city) /\ ~Falsy(iso2)
            THEN Str(city \o <<",", " ">> \o iso2)
          ELSE IF ~Falsy(city) /\ ~Falsy(countryName)
            THEN Str(city \o <<",", " ">> \o countryName)
          ELSE IF ~Falsy(city) THEN Str(city)
          ELSE IF ~Falsy(countryName) THEN Str(countryName)
          ELSE Null

\* ------------------------------------------------------------------------
\* What the two file servers may answer
\* ------------------------------------------------------------------------

\* An airport file: a row with city and a country of the country file, one
\* with a lower-case code, one with a quoted comma and a country the country
\* file lacks, one without city, one without country, one with neither, a
\* short row, a row without code and an empty line.
AirportsText ==
  Chars("1,\"Pearson\",\"Toronto\",\"Canada\",\"YYZ\",\"CYYZ\"\n"
        \o "2,\"LAX\",\"Los Angeles\",\"United States\",\"LAX\",\"klax\"\r\n"
        \o "3,\"Heathrow\",\"London, City of\",\"Atlantis\",\"LHR\",\"EGLL\"\n"
        \o "4,\"A\",\"\",\"Canada\",\"YNC\",\"CYNC\"\n"
        \o "5,\"B\",\"Gander\",\"\",\"YQX\",\"CYQX\"\n"
        \o "6,\"C\",\"\",\"\",\"YBL\",\"CYBL\"\n"
        \o "short,row\n"
        \o "\n"
        \o "7,\"D\",\"Nowhere\",\"Canada\",\"NOW\",\"\"\n")

\* An airport file without a usable row.
AirportsTextEmpty == Chars("short,row\n")

CountriesText ==
  Chars("\"id\",\"code\",\"name\",\"continent\"\n"
        \o "1,\"CA\",\"Canada\",\"NA\"\n"
        \o " 2,\"US\",\"United States\",\"NA\" \n"
        \o "3,\"\",\"Nameless\",\"NA\"\n"
        \o "\n")

AirportsResponses ==
  { FileResponse(FALSE, FALSE, <<>>),           \* timeout, network error, status
    FileResponse(TRUE, FALSE, <<>>),            \* body that is not a string
    FileResponse(TRUE, TRUE, AirportsText),
    FileResponse(TRUE, TRUE, AirportsTextEmpty) }

CountriesResponses ==
  { FileResponse(FALSE, FALSE, <<>>),
    FileResponse(TRUE, FALSE, <<>>),
    FileResponse(TRUE, TRUE, CountriesText) }

\* The tables the responses above produce.
AirportsOf == [resp \in AirportsResponses |-> airportsFromResponse(resp)]

CountriesOf == [resp \in CountriesResponses |-> countriesFromResponse(resp)]

\* ------------------------------------------------------------------------
\* The reference data store: loadAirportDb, loadCountryDb, getAirportDisplay
\* ------------------------------------------------------------------------

\* Number of display lookups started over one behaviour.
MaxLookups == 3

\* The display lookups that can be in flight at the same time: enrichment
\* starts the lookups of origin and destination together.
Lookups == {"d1", "d2"}

\* The codes the callers pass: none, and codes of the rows of AirportsText.
LookupCodes == { <<>>, cyyz, <<"c","y","n","c">>, <<"Z","Z","Z","Z">> }

\* A call of loadAirportDb or loadCountryDb: where it stands, the object it
\* returned, whether it issued a request and whether it ran its catch block.
NoLoad == [state |-> "none", value |-> <<>>, fetched |-> FALSE, failed |-> FALSE]

\* The frame of a call of getAirportDisplay that is not running.
IdleLookup ==
  [pc |-> "idle", icaoCode |-> <<>>, airports |-> NoLoad, countries |-> NoLoad,
   ret |-> Null]

\* loadAirportDb() or loadCountryDb() up to its first await or its return:
\* the table when it is set, a request of its own otherwise.
loadStart(table) ==
  IF isSet(table)
    THEN [NoLoad EXCEPT !.state = "returned", !.value = table.map]
    ELSE [NoLoad EXCEPT !.state = "fetching", !.fetched = TRUE]

\* The load returns the table it has just assigned.
loadReturns(load, table, resp) ==
  [load EXCEPT !.state = "returned", !.value = table.map,
               !.failed = (~resp.ok \/ ~resp.isText)]

\* Number of requests a load issues.
requestsOf(load) == IF load.state = "fetching" THEN 1 ELSE 0

\* The outcome of a load, for the history.
outcomeOf(resp) == IF ~resp.ok \/ ~resp.isText THEN "failed" ELSE "loaded"

\* getAirportDisplay(icaoCode) from its entry to its await or its return: the
\* two loads are called one after the other before anything is awaited.
LookupStart(l, icaoCode) ==
  /\ lookup[l].pc = "idle"
  /\ lookupStarts < MaxLookups
  /\ lookupStarts' = lookupStarts + 1
  /\ IF Falsy(icaoCode)
       THEN /\ lookup' = [lookup EXCEPT ![l] =
                 [IdleLookup EXCEPT !.pc = "done", !.icaoCode = icaoCode]]
            /\ UNCHANGED fetches
       ELSE LET a == loadStart(airportsByIcao)
                c == loadStart(countryNameToIso2)
            IN /\ lookup' = [lookup EXCEPT ![l] =
                    [IdleLookup EXCEPT !.pc = "loading", !.icaoCode = icaoCode,
                                       !.airports = a, !.countries = c]]
               /\ fetches' = [airports |-> fetches.airports + requestsOf(a),
                               countries |-> fetches.countries + requestsOf(c)]
  /\ UNCHANGED <<airportsByIcao, countryNameToIso2, loads>>
  /\ UNCHANGED notStoreVars

\* The request of a loadAirportDb completes: the table is assigned, from the
\* try block or from the catch block, and the load returns the table.
AirportsResponds(l, resp) ==
  /\ lookup[l].pc = "loading"
  /\ lookup[l].airports.state = "fetching"
  /\ airportsByIcao' = AirportsOf[resp]
  /\ lookup' = [lookup EXCEPT ![l].airports =
                  loadReturns(@, AirportsOf[resp], resp)]
  /\ loads' = [loads EXCEPT !.airports = @ \cup {outcomeOf(resp)}]
  /\ UNCHANGED <<countryNameToIso2, fetches, lookupStarts>>
  /\ UNCHANGED notStoreVars

\* The request of a loadCountryDb completes.
CountriesResponds(l, resp) ==
  /\ lookup[l].pc = "loading"
  /\ lookup[l].countries.state = "fetching"
  /\ countryNameToIso2' = CountriesOf[resp]
  /\ lookup' = [lookup EXCEPT ![l].countries =
                  loadReturns(@, CountriesOf[resp], resp)]
  /\ loads' = [loads EXCEPT !.countries = @ \cup {outcomeOf(resp)}]
  /\ UNCHANGED <<airportsByIcao, fetches, lookupStarts>>
  /\ UNCHANGED notStoreVars

\* getAirportDisplay resumes after `await Promise.all(...)` with the two
\* objects the loads returned.
LookupResume(l) ==
  /\ lookup[l].pc = "loading"
  /\ lookup[l].airports.state = "returned"
  /\ lookup[l].countries.state = "returned"
  /\ lookup' = [lookup EXCEPT ![l].pc = "done",
                  ![l].ret = getAirportDisplay(lookup[l].icaoCode,
                               lookup[l].airports.value, lookup[l].countries.value)]
  /\ UNCHANGED <<airportsByIcao, countryNameToIso2, fetches, loads, lookupStarts>>
  /\ UNCHANGED notStoreVars

\* The caller has taken the display name.
LookupReturn(l) ==
  /\ lookup[l].pc = "done"
  /\ lookup' = [lookup EXCEPT ![l] = IdleLookup]
  /\ UNCHANGED <<airportsByIcao, countryNameToIso2, fetches, loads, lookupStarts>>
  /\ UNCHANGED notStoreVars

NextStore ==
  \/ \E l \in Lookups, icaoCode \in LookupCodes : LookupStart(l, icaoCode)
  \/ \E l \in Lookups, resp \in AirportsResponses : AirportsResponds(l, resp)
  \/ \E l \in Lookups, resp \in CountriesResponses : CountriesResponds(l, resp)
  \/ \E l \in Lookups : LookupResume(l)
  \/ \E l \in Lookups : LookupReturn(l)

SpecStore == Init /\ [][NextStore]_vars

\* ------------------------------------------------------------------------
\* getAirportDisplay as a function of the tables
\* ------------------------------------------------------------------------

Toronto == Chars("Toronto")
Canada == Chars("Canada")
Atlantis == Chars("Atlantis")

\* The records loadAirportDb stores: city and country name, either possibly
\* empty.
AirportInfos ==
  [city : {<<>>, Toronto}, countryName : {<<>>, Canada, Atlantis}]

\* The airport tables: every table over a subset of two upper-case codes.
AirportTables ==
  UNION { [keys -> AirportInfos] : keys \in SUBSET {CYYZ, KLAX} }

\* The country tables: every table over a subset of two names; loadCountryDb
\* stores no empty name and no empty code.
CountryTables ==
  UNION { [names -> {Chars("CA"), Chars("XA")}] : names \in SUBSET {Canada, Atlantis} }

DisplayCodes == { <<>>, cyyz, CYYZ, KLAX }

InitDisplay ==
  /\ InitState
  /\ displayCall \in [pc : {"called"}, icaoCode : DisplayCodes,
                      airports : AirportTables, countries : CountryTables,
                      ret : {Null}]
  /\ adapterCall = [pc |-> "none"]
  /\ formatCall = [pc |-> "none"]
  /\ directionCall = [pc |-> "none"]
  /\ csvCall = [pc |-> "none"]

\* getAirportDisplay(icaoCode) with the two loads returning the given tables.
ApplyDisplay ==
  /\ displayCall.pc = "called"
  /\ displayCall' =
       [displayCall EXCEPT !.pc = "returned",
          !.ret = getAirportDisplay(displayCall.icaoCode, displayCall.airports,
                                    displayCall.countries)]
  /\ UNCHANGED <<resolverVars, storeVars, adapterCall, formatCall,
                 directionCall, csvCall, enrichVars, browserVars>>

NextDisplay == ApplyDisplay

SpecDisplay == InitDisplay /\ [][NextDisplay]_vars

\* ------------------------------------------------------------------------
\* The adapters as functions of the answers to their requests
\* ------------------------------------------------------------------------

\* What a payload may carry where a code is expected: nothing, a string, [].
CodeValues == { <<>>, cyyz, KLAX, EmptyArray }

\* Every answer to the request of fetchRouteFromAdsbdb over these values.
AllAdsbdbResponses ==
  [ok : BOOLEAN, origin : CodeValues, destination : CodeValues,
   hasRoute : BOOLEAN, routeOrigin : CodeValues, routeDestination : CodeValues]

\* The airport objects of the payloads of the two commercial services.
AirportObjects ==
  { NoAirport, EmptyAirport,
    Airport(cyyz, <<>>, <<>>, <<>>), Airport(<<>>, <<>>, <<>>, KLAX),
    Airport(<<>>, <<>>, EGLL, <<>>), Airport(<<>>, CYYZ, <<>>, <<>>),
    Airport(EmptyArray, <<>>, <<>>, <<>>), Airport(<<>>, <<>>, EmptyArray, <<>>) }

\* Answers to one request of fetchRouteFromAeroDataBox: those of the
\* resolver's model, and flights whose departure and arrival are any of the
\* airport objects.
AllAerodataboxResponses ==
  AerodataboxResponses \cup
    { AerodataboxResponse(TRUE, TRUE, d, NoAirport, a, NoAirport) :
        d \in AirportObjects, a \in AirportObjects }

AllAviationstackResponses ==
  AviationstackResponses \cup
    { AviationstackResponse(TRUE, 200, TRUE, d, a) :
        d \in AirportObjects, a \in AirportObjects }

\* The callsign keys: two candidates (ACA1, JZA with four digits, a
\* lower-case key), one candidate (a prefix without IATA entry, a two-letter
\* prefix), none (no letters, four letters, five digits, no digits, a
\* trailing letter).
AdapterKeys ==
  { ACA1, <<"J","Z","A","1","2","3","4">>, <<"b","a","w","9">>,
    <<"X","Y","Z","7">>, <<"A","C","1","2">>,
    <<"4","2">>, <<"A","C","A","B","1">>, <<"A","C","A","1","2","3","4","5">>,
    <<"A","C","A">>, <<"A","C","A","1","A">> }

\* fetchRouteFromAeroDataBox(callsignKey), resps[k] being the answer to the
\* request for the k-th candidate: the loop over the candidates from the
\* k-th on.
RECURSIVE aerodataboxLoop(_, _, _)
aerodataboxLoop(candidates, resps, k) ==
  IF k > Len(candidates) THEN Null
  ELSE IF aerodataboxResult(resps[k]) # Null THEN aerodataboxResult(resps[k])
  ELSE aerodataboxLoop(candidates, resps, k + 1)

fetchRouteFromAeroDataBox(callsignKey, resps) ==
  IF ~aerodataboxKey THEN Null
  ELSE aerodataboxLoop(buildFlightNumberCandidates(callsignKey), resps, 1)

\* The flight numbers the loop of fetchRouteFromAeroDataBox requests from the
\* k-th candidate on, in the order of the requests: the loop goes on after a
\* request without result and returns after one with a result.
RECURSIVE aerodataboxRequests(_, _, _)
aerodataboxRequests(candidates, resps, k) ==
  IF k > Len(candidates) THEN <<>>
  ELSE <<candidates[k]>> \o
         (IF aerodataboxResult(resps[k]) # Null THEN <<>>
          ELSE aerodataboxRequests(candidates, resps, k + 1))

\* The requests of one adapter call: adsbdb requests the callsign key,
\* AeroDataBox its candidates, AviationStack the callsign key (flight_icao);
\* the keyed adapters request nothing without their key.
adapterRequests(source, callsignKey, resps) ==
  CASE source = "adsbdb" -> <<callsignKey>>
    [] source = "aerodatabox" ->
         IF ~aerodataboxKey THEN <<>>
         ELSE aerodataboxRequests(buildFlightNumberCandidates(callsignKey),
                                  resps, 1)
    [] source = "aviationstack" ->
         IF ~aviationstackKey THEN <<>> ELSE <<callsignKey>>

fetchRouteFromAviationStack(callsignKey, resp) ==
  IF ~aviationstackKey THEN Null ELSE aviationstackResult(resp)

fetchRouteFromAdsbdb(callsignKey, resp) == adsbdbResult(resp)

\* The second answer matters only after a first one without route: it is
\* drawn from the answers of the resolver's model.
InitAdapters ==
  /\ InitState
  /\ displayCall = [pc |-> "none"]
  /\ formatCall = [pc |-> "none"]
  /\ directionCall = [pc |-> "none"]
  /\ csvCall = [pc |-> "none"]
  /\ \/ adapterCall \in [pc : {"called"}, source : {"adsbdb"}, key : AdapterKeys,
                         resps : {<<r>> : r \in AllAdsbdbResponses}, ret : {Null},
                         candidates : {<<>>}, requests : {<<>>}]
     \/ adapterCall \in [pc : {"called"}, source : {"aerodatabox"},
                         key : AdapterKeys,
                         resps : {<<r1, r2>> : r1 \in AllAerodataboxResponses,
                                               r2 \in AerodataboxResponses},
                         ret : {Null}, candidates : {<<>>}, requests : {<<>>}]
     \/ adapterCall \in [pc : {"called"}, source : {"aviationstack"},
                         key : AdapterKeys,
                         resps : {<<r>> : r \in AllAviationstackResponses},
                         ret : {Null}, candidates : {<<>>}, requests : {<<>>}]

\* The adapter of the call runs to its return.
ApplyAdapter ==
  /\ adapterCall.pc = "called"
  /\ adapterCall' =
       [adapterCall EXCEPT !.pc = "returned",
          !.candidates = IF adapterCall.source = "aerodatabox" /\ aerodataboxKey
                           THEN buildFlightNumberCandidates(adapterCall.key)
                           ELSE <<>>,
          !.requests = adapterRequests(adapterCall.source, adapterCall.key,
                                       adapterCall.resps),
          !.ret = CASE adapterCall.source = "adsbdb" ->
                         fetchRouteFromAdsbdb(adapterCall.key, adapterCall.resps[1])
                    [] adapterCall.source = "aerodatabox" ->
                         fetchRouteFromAeroDataBox(adapterCall.key, adapterCall.resps)
                    [] adapterCall.source = "aviationstack" ->
                         fetchRouteFromAviationStack(adapterCall.key,
                                                     adapterCall.resps[1])]
  /\ UNCHANGED <<resolverVars, storeVars, displayCall, formatCall,
                 directionCall, csvCall, enrichVars, browserVars>>

NextAdapters == ApplyAdapter

SpecAdapters == InitAdapters /\ [][NextAdapters]_vars

\* ------------------------------------------------------------------------
\* The enricher: enrichAircraftWithRoutes
\* ------------------------------------------------------------------------

\* Largest number of records of a batch.
MaxBatch == 2

\* An exception thrown by an awaited call.
Thrown == [kind |-> "thrown"]

\* The result of a display lookup that has not settled.
Pending == [kind |-> "pending"]

\* A record as baseFormatAircraft returns it: icao24 stands for the fields
\* enrichment never touches, callsign is a trimmed string, possibly empty.
BaseAircraft(icao24, callsign) ==
  [icao24 |-> icao24, callsign |-> callsign, originIcao |-> Null,
   destinationIcao |-> Null, originDisplay |-> Null, destinationDisplay |-> Null]

\* The batches: up to MaxBatch records, the k-th with the k-th address.
Batches ==
  UNION { [1..n -> {<<>>, ACA1, ACA2}] : n \in 0..MaxBatch }

BatchOf(callsigns) ==
  [k \in 1..Len(callsigns) |->
     BaseAircraft(<<"h", "e", "x">> \o <<Head(SubSeq(UpperLetters, k, k))>>,
                  callsigns[k])]

\* What `await fetchRouteForCallsign(ac.callsign)` yields: no route, a
\* route, or an exception.
RouteOutcomes == { Null, Route(CYYZ, KLAX), Thrown }

\* What a getAirportDisplay(code) of the Promise.all yields: null, a name,
\* or an exception.
DisplayOutcomes ==
  [origin |-> { Null, Str(Chars("Toronto, CA")), Thrown },
   destination |-> { Null, Str(Chars("Los Angeles, US")), Thrown }]

\* A test of the callsign that every record passes.
hasCallsign_always(ac) == TRUE

\* `!ac.callsign` is false.
hasCallsign(ac) == ~Falsy(ac.callsign)

\* A catch block that throws the error again: the task rejects.
catchError_rethrow(t) == [t EXCEPT !.pc = "rejected"]

\* The catch block of the task and the `return ac` after it.
catchError(t) == [t EXCEPT !.pc = "returned"]

\* The task of a record from its entry to its first await or its return.
taskStart(ac) ==
  LET t == [pc |-> "returned", ac |-> ac, resolutionStarted |-> FALSE,
            lookupsStarted |-> {}, route |-> Pending,
            displays |-> [origin |-> Pending, destination |-> Pending],
            failed |-> "no"]
  IN IF ~hasCallsign(ac) THEN t
     ELSE [t EXCEPT !.pc = "resolving", !.resolutionStarted = TRUE]

\* A task that assigns the destination code only after the lookups.
startDisplayLookups_originFirst(t, route) ==
  [t EXCEPT !.pc = "displaying",
            !.ac.originIcao = Str(route.originIcao),
            !.lookupsStarted = {"origin", "destination"}]

\* A task that awaits the origin lookup before it starts the destination
\* lookup.
startDisplayLookups_sequential(t, route) ==
  [t EXCEPT !.pc = "displaying",
            !.ac.originIcao = Str(route.originIcao),
            !.ac.destinationIcao = Str(route.destinationIcao),
            !.lookupsStarted = {"origin"}]

\* The task between the test of the route and `await Promise.all([...])`:
\* the two codes are assigned and the array literal calls getAirportDisplay
\* for the origin and then for the destination, each call running up to its
\* first await.
startDisplayLookups(t, route) ==
  [t EXCEPT !.pc = "displaying",
            !.ac.originIcao = Str(route.originIcao),
            !.ac.destinationIcao = Str(route.destinationIcao),
            !.lookupsStarted = {"origin", "destination"}]

\* A Promise.all that yields the values in the order in which the tasks
\* settled.
promiseAll_completionOrder(tasks) ==
  [k \in 1..Len(tasks) |-> tasks[finished[k]].ac]

\* Promise.all(tasks) once every task has returned: the values in the order
\* of the tasks.
promiseAll(tasks) == [k \in 1..Len(tasks) |-> tasks[k].ac]

\* enrichAircraftWithRoutes(aircraftList) up to its return of the promise:
\* map runs every task to its first await, in the order of the list.
Enrich(callsigns) ==
  /\ enrichOut.status = "idle"
  /\ aircraftList' = BatchOf(callsigns)
  /\ task' = [k \in 1..Len(callsigns) |-> taskStart(BatchOf(callsigns)[k])]
  /\ enrichOut' = [status |-> "pending", value |-> <<>>]
  /\ finished' = SelectSeq([k \in 1..Len(callsigns) |-> k],
                           LAMBDA k : ~hasCallsign(BatchOf(callsigns)[k]))
  /\ UNCHANGED <<resolverVars, storeVars, pureVars, browserVars>>

\* The task of record i resumes after `await fetchRouteForCallsign(...)`.
RouteReturns(i, outcome) ==
  /\ i \in 1..Len(task)
  /\ task[i].pc = "resolving"
  /\ LET t == [task[i] EXCEPT !.route = outcome]
     IN IF outcome = Thrown
          THEN /\ task' = [task EXCEPT ![i] =
                    catchError([t EXCEPT !.failed = "resolution"])]
               /\ finished' = Append(finished, i)
          ELSE IF outcome = Null
          THEN /\ task' = [task EXCEPT ![i] = [t EXCEPT !.pc = "returned"]]
               /\ finished' = Append(finished, i)
          ELSE /\ task' = [task EXCEPT ![i] = startDisplayLookups(t, outcome)]
               /\ UNCHANGED finished
  /\ UNCHANGED <<aircraftList, enrichOut>>
  /\ UNCHANGED <<resolverVars, storeVars, pureVars, browserVars>>

\* One of the two display lookups of record i settles: an exception makes
\* the awaited Promise.all reject at once; the second result lets the task
\* go on to the assignments and its return.
DisplayReturns(i, which, outcome) ==
  /\ i \in 1..Len(task)
  /\ task[i].pc = "displaying"
  /\ task[i].displays[which] = Pending
  /\ LET t     == [task[i] EXCEPT !.displays[which] = outcome]
         other == IF which = "origin" THEN "destination" ELSE "origin"
     IN IF outcome = Thrown
          THEN /\ task' = [task EXCEPT ![i] =
                    catchError([t EXCEPT !.failed = "display"])]
               /\ finished' = Append(finished, i)
          ELSE IF t.displays[other] # Pending
          THEN /\ task' = [task EXCEPT ![i] =
                    [t EXCEPT !.pc = "returned",
                              !.ac.originDisplay = t.displays.origin,
                              !.ac.destinationDisplay = t.displays.destination]]
               /\ finished' = Append(finished, i)
          ELSE /\ task' = [task EXCEPT ![i] = t]
               /\ UNCHANGED finished
  /\ UNCHANGED <<aircraftList, enrichOut>>
  /\ UNCHANGED <<resolverVars, storeVars, pureVars, browserVars>>

\* The promise of Promise.all(tasks) settles: fulfilled once every task has
\* returned, rejected as soon as a task has rejected.
EnrichReturns ==
  /\ enrichOut.status = "pending"
  /\ \/ \A i \in 1..Len(task) : task[i].pc = "returned"
     \/ \E i \in 1..Len(task) : task[i].pc = "rejected"
  /\ enrichOut' =
       IF \E i \in 1..Len(task) : task[i].pc = "rejected"
         THEN [status |-> "rejected", value |-> <<>>]
         ELSE [status |-> "fulfilled", value |-> promiseAll(task)]
  /\ UNCHANGED <<aircraftList, task, finished>>
  /\ UNCHANGED <<resolverVars, storeVars, pureVars, browserVars>>

NextEnrich ==
  \/ \E callsigns \in Batches : Enrich(callsigns)
  \/ \E i \in 1..MaxBatch, outcome \in RouteOutcomes : RouteReturns(i, outcome)
  \/ \E i \in 1..MaxBatch, which \in {"origin", "destination"} :
       \E outcome \in DisplayOutcomes[which] : DisplayReturns(i, which, outcome)
  \/ EnrichReturns

SpecEnrich == Init /\ [][NextEnrich]_vars

\* ------------------------------------------------------------------------
\* enrichAircraftWithRoutes with its resolutions, under fair scheduling
\* ------------------------------------------------------------------------

\* The frame of the resolution of the k-th record of a batch.
ProcOf == <<"r1", "r2">>

\* The batches whose records each have a frame.
LiveBatches == { b \in Batches : Len(b) <= Len(ProcOf) }

\* fetchRouteForCallsign(callsign) from its entry to its first await or
\* its return, as a frame: the code of Start.
fetchRouteForCallsignEntry(callsign) ==
  LET key == normalizeCallsign(callsign)
      c0  == [IdleCall EXCEPT !.arg = callsign, !.key = key]
  IN IF Falsy(callsign) \/ Falsy(key) THEN returnFrom(c0, Null)
     ELSE IF hasOwnProperty(routeCache, key)
       THEN returnFrom(c0, cacheGet(routeCache, key))
     ELSE LET airlineKey == getAirlineKeyFromCallsign(key)
              c1 == [c0 EXCEPT !.airlineKey = airlineKey,
                       !.sourceOrder = getRouteSourceOrderForAirline(airlineKey)]
          IN invokeAdapter(c1, 1)

\* The records of a batch that have a callsign.
Resolving(callsigns) ==
  { k \in 1..Len(callsigns) : hasCallsign(BatchOf(callsigns)[k]) }

\* enrichAircraftWithRoutes(aircraftList) up to its return of the promise:
\* map runs the task of every record, and with it the resolution of its
\* callsign, to its first await, in the order of the list; none of them
\* writes the cache or the statistics before its first await.
EnrichLive(callsigns) ==
  /\ enrichOut.status = "idle"
  /\ starts + Cardinality(Resolving(callsigns)) <= MaxStarts
  /\ starts' = starts + Cardinality(Resolving(callsigns))
  /\ aircraftList' = BatchOf(callsigns)
  /\ task' = [k \in 1..Len(callsigns) |-> taskStart(BatchOf(callsigns)[k])]
  /\ enrichOut' = [status |-> "pending", value |-> <<>>]
  /\ finished' = SelectSeq([k \in 1..Len(callsigns) |-> k],
                           LAMBDA k : ~hasCallsign(BatchOf(callsigns)[k]))
  /\ call' = [p \in Procs |->
                IF \E k \in Resolving(callsigns) : ProcOf[k] = p
                  THEN fetchRouteForCallsignEntry(
                         callsigns[CHOOSE k \in Resolving(callsigns) : ProcOf[k] = p])
                  ELSE IdleCall]
  /\ completed' = completed \cup
       { <<callsigns[k], cacheGet(routeCache, normalizeCallsign(callsigns[k]))>> :
           k \in { j \in Resolving(callsigns) :
                     hasOwnProperty(routeCache, normalizeCallsign(callsigns[j])) } }
  /\ UNCHANGED <<routeCache, routeSourceStats, aerodataboxKey, aviationstackKey,
                 orderOut>>
  /\ UNCHANGED <<storeVars, pureVars, browserVars>>

\* The task of record i resumes after `await fetchRouteForCallsign(...)`
\* with the value its resolution returned.
RouteReturnsLive(i) ==
  /\ i \in 1..Len(ProcOf)
  /\ call[ProcOf[i]].pc = "done"
  /\ RouteReturns(i, call[ProcOf[i]].ret)

AdapterResponds(p) ==
  \/ \E resp \in OutageAdsbdbResponses : AdsbdbResponds(p, resp)
  \/ \E resp \in OutageAerodataboxResponses : AerodataboxResponds(p, resp)
  \/ \E resp \in OutageAviationstackResponses : AviationstackResponds(p, resp)

DisplaySettles(i, which) ==
  \E outcome \in DisplayOutcomes[which] : DisplayReturns(i, which, outcome)

NextLive ==
  \/ \E callsigns \in LiveBatches : EnrichLive(callsigns)
  \/ \E p \in Procs : AdapterResponds(p)
  \/ \E p \in Procs : Resume(p)
  \/ \E i \in 1..Len(ProcOf) : RouteReturnsLive(i)
  \/ \E i \in 1..Len(ProcOf), which \in {"origin", "destination"} :
       DisplaySettles(i, which)
  \/ EnrichReturns

\* The requests in flight: those of the adapters and those behind
\* getAirportDisplay.
RequestCompletes ==
  \/ \E p \in Procs : AdapterResponds(p)
  \/ \E i \in 1..Len(ProcOf), which \in {"origin", "destination"} :
       DisplaySettles(i, which)

\* The continuations of the tasks of enrich that are ready to run.
TaskContinues ==
  \/ \E i \in 1..Len(ProcOf) : RouteReturnsLive(i)
  \/ EnrichReturns

\* Weak fairness of Resume(p), spelled out: Resume(p) is enabled exactly
\* when the frame of p is "resolved", and every step of it changes the frame.
ResumeIsFair(p) ==
  \/ []<>(call[p].pc # "resolved")
  \/ []<><<Resume(p)>>_vars

\* Every outbound request eventually completes, and the event loop
\* eventually runs a continuation that is ready; a request in flight and a
\* ready continuation stay so until they are served.
FairLive ==
  /\ WF_vars(RequestCompletes)
  /\ WF_vars(TaskContinues)
  /\ \A p \in Procs : ResumeIsFair(p)

SpecLive == InitOutage /\ [][NextLive]_vars /\ FairLive

\* ------------------------------------------------------------------------
\* Geometry fields of a formatted record: baseFormatAircraft
\* ------------------------------------------------------------------------

\* Values of a field of a raw record: a finite number, NaN, Infinity, a
\* boolean, a string (Str), null and undefined.
Num(n) == [kind |-> "number", num |-> n]
NaN == [kind |-> "NaN"]
Infinity == [kind |-> "Infinity"]
Bool(b) == [kind |-> "boolean", bool |-> b]

\* The decimal value of a non-empty string of digits.
RECURSIVE digitsValue(_)
digitsValue(s) ==
  IF s = <<>> THEN 0
  ELSE 10 * digitsValue(SubSeq(s, 1, Len(s) - 1))
         + (CHOOSE d \in 0..9 : Chars("0123456789")[d + 1] = s[Len(s)])

IsDigits(s) == s # <<>> /\ \A i \in 1..Len(s) : s[i] \in Digits

\* Number(value): a number is itself; a string is trimmed, the empty string
\* is 0, a decimal integer with an optional sign its value, any other text
\* NaN; true is 1 and false 0; null is 0 and undefined NaN.
Number(value) ==
  CASE value.kind \in {"number", "NaN", "Infinity"} -> value
    [] value.kind = "boolean" -> Num(IF value.bool THEN 1 ELSE 0)
    [] value.kind = "null" -> Num(0)
    [] value.kind = "undefined" -> NaN
    [] value.kind = "string" ->
         LET t == trim(value.value)
         IN IF t = <<>> THEN Num(0)
            ELSE IF IsDigits(t) THEN Num(digitsValue(t))
            ELSE IF Head(t) = "-" /\ IsDigits(Tail(t)) THEN Num(0 - digitsValue(Tail(t)))
            ELSE IF Head(t) = "+" /\ IsDigits(Tail(t)) THEN Num(digitsValue(Tail(t)))
            ELSE NaN

\* `value != null`
notNullish(value) == value.kind \notin {"null", "undefined"}

\* Number.isNaN
isNaN(value) == value.kind = "NaN"

\* Number.isFinite
isFinite(value) == value.kind = "number"

\* The result of a geometry function on finite coordinates, as the term of
\* its call; on a coordinate that is not finite the trigonometric functions
\* give NaN.
bearingDegrees(lat, lon) ==
  IF isFinite(lat) /\ isFinite(lon)
    THEN [kind |-> "bearing", lat |-> lat.num, lon |-> lon.num]
    ELSE NaN

distanceKm(lat, lon) ==
  IF isFinite(lat) /\ isFinite(lon)
    THEN [kind |-> "distance", lat |-> lat.num, lon |-> lon.num]
    ELSE NaN

\* Math.round(br * 10) / 10
roundToTenth(br) == IF br = NaN THEN NaN ELSE [kind |-> "rounded", of |-> br]

\* bearingToDirection on the bearing of a call: dirs[NaN] is undefined.
directionOf(br) == IF br = NaN THEN Undefined ELSE [kind |-> "direction", of |-> br]

\* lat != null && lon != null && !Number.isNaN(lat) && !Number.isNaN(lon),
\* lat and lon being null or the Number(...) of the raw value.
coordinatesUsable(lat, lon) ==
  /\ lat # Null
  /\ lon # Null
  /\ ~isNaN(lat)
  /\ ~isNaN(lon)

\* The geometry part of baseFormatAircraft(ac): the position and the three
\* derived fields of the record it returns, and the geometry functions it
\* called.
baseFormatAircraft(ac) ==
  LET lat == IF notNullish(ac.lat) THEN Number(ac.lat) ELSE Null
      lon == IF notNullish(ac.lon) THEN Number(ac.lon) ELSE Null
      br  == bearingDegrees(lat, lon)
      dist == distanceKm(lat, lon)
  IN IF coordinatesUsable(lat, lon)
       THEN [lat |-> IF isFinite(lat) THEN lat ELSE Null,
             lon |-> IF isFinite(lon) THEN lon ELSE Null,
             bearingDeg |-> roundToTenth(br),
             lookDirection |-> directionOf(br),
             distanceKm |-> IF dist # NaN THEN dist ELSE Null,
             called |-> {"bearingDegrees", "bearingToDirection", "distanceKm"}]
       ELSE [lat |-> IF lat # Null /\ isFinite(lat) THEN lat ELSE Null,
             lon |-> IF lon # Null /\ isFinite(lon) THEN lon ELSE Null,
             bearingDeg |-> Null, lookDirection |-> Null, distanceKm |-> Null,
             called |-> {}]

\* The values of ac.lat and ac.lon in the raw records.
RawCoordinates ==
  { Undefined, Null, Num(43), Num(0 - 79), NaN, Infinity,
    Str(Chars("43")), Str(Chars("-79")), Str(Chars(" 7 ")), Str(<<>>),
    Str(Chars("abc")), Bool(TRUE) }

InitFormat ==
  /\ InitState
  /\ displayCall = [pc |-> "none"]
  /\ adapterCall = [pc |-> "none"]
  /\ directionCall = [pc |-> "none"]
  /\ csvCall = [pc |-> "none"]
  /\ formatCall \in [pc : {"called"},
                     ac : [lat : RawCoordinates, lon : RawCoordinates],
                     ret : {Null}]

ApplyFormat ==
  /\ formatCall.pc = "called"
  /\ formatCall' = [formatCall EXCEPT !.pc = "returned",
                                      !.ret = baseFormatAircraft(formatCall.ac)]
  /\ UNCHANGED <<resolverVars, storeVars, displayCall, adapterCall,
                 directionCall, csvCall, enrichVars, browserVars>>

NextFormat == ApplyFormat

SpecFormat == InitFormat /\ [][NextFormat]_vars

\* ------------------------------------------------------------------------
\* The compass point of a bearing: bearingToDirection
\* ------------------------------------------------------------------------

\* Bearings are counted in steps of 1 / (2 * Grid) degree, so that 22.5
\* degrees is a whole number of steps.
Grid == 2

\* The number of steps of deg / 2 degrees.
HalfDegrees(deg) == deg * Grid

dirs == <<"N", "NE", "E", "SE", "S", "SW", "W", "NW">>

\* A bearingToDirection whose sectors start at the compass points.
bearingToDirection_uncentred(brng) ==
  LET idx == (brng \div HalfDegrees(90)) % 8
  IN dirs[idx + 1]

\* Math.floor((brng + 22.5) / 45) % 8, the index into dirs (from 0).
bearingToDirection(brng) ==
  LET idx == ((brng + HalfDegrees(45)) \div HalfDegrees(90)) % 8
  IN dirs[idx + 1]

\* The bearings of [0, 360) on the grid.
Bearings == 0..(HalfDegrees(720) - 1)

InitDirection ==
  /\ InitState
  /\ displayCall = [pc |-> "none"]
  /\ adapterCall = [pc |-> "none"]
  /\ formatCall = [pc |-> "none"]
  /\ directionCall \in [pc : {"called"}, brng : Bearings, ret : {""}]
  /\ csvCall = [pc |-> "none"]

ApplyDirection ==
  /\ directionCall.pc = "called"
  /\ directionCall' =
       [directionCall EXCEPT !.pc = "returned",
                             !.ret = bearingToDirection(directionCall.brng)]
  /\ UNCHANGED <<resolverVars, storeVars, displayCall, adapterCall,
                 formatCall, csvCall, enrichVars, browserVars>>

NextDirection == ApplyDirection

SpecDirection == InitDirection /\ [][NextDirection]_vars

\* ------------------------------------------------------------------------
\* parseCsvLine applied on its own
\* ------------------------------------------------------------------------

\* Largest length of a line.
MaxLineLen == 6

\* The lines: every string of an ordinary character, commas and quotes.
CsvLines == UNION { [1..n -> {"a", ",", "\""}] : n \in 0..MaxLineLen }

InitCsv ==
  /\ InitState
  /\ displayCall = [pc |-> "none"]
  /\ adapterCall = [pc |-> "none"]
  /\ formatCall = [pc |-> "none"]
  /\ directionCall = [pc |-> "none"]
  /\ csvCall \in [pc : {"called"}, line : CsvLines, ret : {<<>>}]

ApplyCsv ==
  /\ csvCall.pc = "called"
  /\ csvCall' = [csvCall EXCEPT !.pc = "returned",
                                !.ret = parseCsvLine(csvCall.line)]
  /\ UNCHANGED <<resolverVars, storeVars, displayCall, adapterCall,
                 formatCall, directionCall, enrichVars, browserVars>>

SpecCsv == InitCsv /\ [][ApplyCsv]_vars

\* ------------------------------------------------------------------------
\* The page: fetchAircraft, renderView, updateAndDrawTrails
\* ------------------------------------------------------------------------

\* Largest number of calls of fetchAircraft.
MaxFetches == 3

MAX_TRAIL_POINTS == 20

\* A record of the list the server returns: icao24 and callsign are strings,
\* possibly empty; lat and lon are numbers or null.
Ac(icao24, callsign, lat, lon) ==
  [icao24 |-> icao24, callsign |-> callsign, lat |-> lat, lon |-> lon]

\* ac.icao24 || ac.callsign
trailKey(ac) == IF ac.icao24 # "" THEN ac.icao24 ELSE ac.callsign

\* ac.lat == null || ac.lon == null
noPosition(ac) == ac.lat = Null \/ ac.lon = Null

\* The first loop of updateAndDrawTrails from the k-th record on: the
\* trails after the records have added their positions.
RECURSIVE pushPositions(_, _, _)
pushPositions(tr, aircraft, k) ==
  IF k > Len(aircraft) THEN tr
  ELSE LET ac   == aircraft[k]
           key  == trailKey(ac)
           list == IF key \in DOMAIN tr THEN tr[key] ELSE <<>>
           pt   == [lat |-> ac.lat, lon |-> ac.lon]
           more == IF list = <<>> \/ list[Len(list)] # pt
                     THEN Append(list, pt) ELSE list
           kept == IF Len(more) > MAX_TRAIL_POINTS THEN Tail(more) ELSE more
       IN IF noPosition(ac) \/ key = "" THEN pushPositions(tr, aircraft, k + 1)
          ELSE pushPositions([x \in DOMAIN tr \cup {key} |->
                                IF x = key THEN kept ELSE tr[x]],
                             aircraft, k + 1)

\* The keys of the records that have a position and a key.
activeKeys(aircraft) ==
  { trailKey(aircraft[k]) : k \in { j \in 1..Len(aircraft) :
        ~noPosition(aircraft[j]) /\ trailKey(aircraft[j]) # "" } }

\* updateAndDrawTrails() on the list: the positions are added, and the
\* trails of the keys that are not in the list are deleted.
updateAndDrawTrails(tr, aircraft) ==
  LET pushed == pushPositions(tr, aircraft, 1)
  IN [x \in DOMAIN pushed \cap activeKeys(aircraft) |-> pushed[x]]

\* The markers renderView adds after clearMarkers(): one for each record
\* with a position.
markersOf(aircraft) ==
  { aircraft[k] : k \in {j \in 1..Len(aircraft) : ~noPosition(aircraft[j])} }

\* Two of the values of the location select (the keys of LOCATIONS).
Locations == {"1", "2"}

\* The lists of the responses.
AircraftLists ==
  { <<>>,
    <<Ac("c01", "ACA1", Num(1), Num(1))>>,
    <<Ac("c01", "ACA1", Num(2), Num(1))>>,
    <<Ac("c01", "ACA1", Num(2), Num(1)), Ac("", "ACA2", Num(1), Num(1))>>,
    <<Ac("c01", "ACA1", Null, Null)>> }

\* The outcomes of the request of a call: a list, or a failure (no
\* response, or a status that is not ok).
FetchResponses ==
  { [ok |-> TRUE, aircraft |-> l] : l \in AircraftLists }
    \cup { [ok |-> FALSE, aircraft |-> <<>>] }

\* The status texts: "Loading...", the text of a response for a location,
\* and the text of the catch block.
Loading == [kind |-> "loading"]
FoundText(n, loc) == [kind |-> "found", count |-> n, location |-> loc]
ErrorText == [kind |-> "error"]

\* fetchAircraft() up to `await fetch(...)`, called by a handler (page
\* load, refresh button, location or radius change, the timer of the
\* automatic refresh) whatever the state of the earlier calls: the list is emptied and the
\* view rendered, which clears the markers and runs updateAndDrawTrails on
\* the empty list.
FetchStart(loc) ==
  /\ Len(fetchCall) < MaxFetches
  /\ statusText' = Loading
  /\ lastAircraft' = <<>>
  /\ markersLayer' = markersOf(<<>>)
  /\ trails' = updateAndDrawTrails(trails, <<>>)
  /\ fetchCall' = Append(fetchCall,
       [pc |-> "fetching", location |-> loc,
        after |-> {i \in 1..Len(fetchCall) : fetchCall[i].pc = "done"},
        order |-> 0, resp |-> [ok |-> FALSE, aircraft |-> <<>>]])
  /\ UNCHANGED <<resolverVars, storeVars, pureVars, enrichVars>>

\* The call i resumes after `await resp.json()`, or in its catch block.
FetchResponds(i, resp) ==
  /\ i \in 1..Len(fetchCall)
  /\ fetchCall[i].pc = "fetching"
  /\ fetchCall' = [fetchCall EXCEPT ![i] =
       [@ EXCEPT !.pc = "done", !.resp = resp,
                 !.order = 1 + Cardinality({j \in 1..Len(fetchCall) :
                                              fetchCall[j].pc = "done"})]]
  /\ IF resp.ok
       THEN /\ statusText' = FoundText(Len(resp.aircraft), fetchCall[i].location)
            /\ lastAircraft' = resp.aircraft
            /\ markersLayer' = markersOf(resp.aircraft)
            /\ trails' = updateAndDrawTrails(trails, resp.aircraft)
       ELSE /\ statusText' = ErrorText
            /\ UNCHANGED <<lastAircraft, markersLayer, trails>>
  /\ UNCHANGED <<resolverVars, storeVars, pureVars, enrichVars>>

NextBrowser ==
  \/ \E loc \in Locations : FetchStart(loc)
  \/ \E i \in 1..MaxFetches, resp \in FetchResponses : FetchResponds(i, resp)

\* The page before its first fetchAircraft(); the keys of the server it
\* talks to are not its state.
InitBrowser == Init /\ aerodataboxKey /\ aviationstackKey

SpecBrowser == InitBrowser /\ [][NextBrowser]_vars

\* ------------------------------------------------------------------------
\* Vocabulary of the properties
\* ------------------------------------------------------------------------

\* The call of p starts in this step.
Starts(p) == call[p].pc = "idle" /\ call'[p].pc # "idle"

\* The call of p has an adapter running or its result pending.
InFlight(c) == c.pc \in {"http", "resolved"}

\* A route with both codes populated.
FullyPopulated(r) ==
  /\ r.kind = "route"
  /\ r.originIcao # <<>>
  /\ r.destinationIcao # <<>>

\* A missing, empty or whitespace-only callsign argument.
Blank(callsign) ==
  \/ callsign = NoCallsign
  \/ \A i \in 1..Len(callsign) : callsign[i] \in Whitespace

\* String.prototype.toLowerCase, one character.
LowerChar(ch) ==
  IF \E i \in 1..26 : UpperLetters[i] = ch
    THEN LowerLetters[CHOOSE i \in 1..26 : UpperLetters[i] = ch]
    ELSE ch

\* The characters of s between its first and its last non-whitespace
\* character, in lower case.
Folded(s) ==
  LET inner == {i \in 1..Len(s) : s[i] \notin Whitespace}
      lo == CHOOSE i \in inner : \A j \in inner : i <= j
      hi == CHOOSE i \in inner : \A j \in inner : j <= i
  IN IF inner = {} THEN <<>>
     ELSE [i \in 1..(hi - lo + 1) |-> LowerChar(s[lo + i - 1])]

\* Two callsigns that differ only in letter case or surrounding whitespace.
SameCallsign(a, b) ==
  /\ ~Blank(a)
  /\ ~Blank(b)
  /\ Folded(a) = Folded(b)

\* Position of a source in the default order.
DefaultIndex(source) == CHOOSE i \in 1..3 : defaultOrder[i] = source

\* The airline keys with a statistics record before or after a step.
StatsKeys == DOMAIN routeSourceStats \cup DOMAIN routeSourceStats'

\* ------------------------------------------------------------------------
\* Properties
\* ------------------------------------------------------------------------

\* C1: a call of resolveRoute that starts after a call with the same callsign
\* has returned is a pure cache hit: it returns at once, invokes no adapter
\* and returns the value the earlier call returned.
C1_SecondCallSameValue ==
  [][\A p \in Procs :
       Starts(p) =>
         \A e \in completed :
           e[1] = call'[p].arg =>
             /\ call'[p].pc = "done"
             /\ call'[p].called = <<>>
             /\ call'[p].ret = e[2]]_vars

\* C2: a resolution in which all adapters of its order were tried without a
\* result stores Null under its key and returns Null, and a later resolution
\* of that callsign returns Null without invoking an adapter.
C2_AbsentIsStoredAndKept ==
  [][\A p \in Procs :
       /\ ( /\ call[p].pc = "resolved"
            /\ call'[p] # call[p]
            /\ ~FullyPopulated(call[p].result)
            /\ call[p].idx = 3 )
          => /\ call'[p].pc = "done"
             /\ call'[p].ret = Null
             /\ call[p].key \in DOMAIN routeCache'
             /\ routeCache'[call[p].key] = Null
       /\ ( /\ Starts(p)
            /\ \E e \in completed : e[1] = call'[p].arg /\ e[2] = Null )
          => /\ call'[p].pc = "done"
             /\ call'[p].called = <<>>
             /\ call'[p].ret = Null]_vars

\* C3: once a resolution of a callsign has completed, a resolution of a
\* callsign that differs from it only in letter case or surrounding
\* whitespace returns the entry of the cache and invokes no adapter.
C3_NormalizedKeyHit ==
  [][\A p \in Procs :
       Starts(p) =>
         \A e \in completed :
           SameCallsign(e[1], call'[p].arg) =>
             /\ call'[p].pc = "done"
             /\ call'[p].called = <<>>
             /\ call'[p].requests = 0
             /\ \E k \in DOMAIN routeCache :
                  /\ SameCallsign(k, e[1])
                  /\ call'[p].ret = routeCache[k]
             /\ UNCHANGED <<routeCache, routeSourceStats>>]_vars

C3_Witness ==
  \E p \in Procs :
    /\ call[p].pc = "done"
    /\ call[p].arg = aca1Padded
    /\ call[p].called = <<>>
    /\ FullyPopulated(call[p].ret)
    /\ <<ACA1, call[p].ret>> \in completed
    /\ DOMAIN routeCache = {ACA1}

\* C4: a call with a missing, empty or whitespace-only callsign returns Null
\* at once; it invokes no adapter and leaves cache and statistics unchanged.
C4_BlankCallsign ==
  [][\A p \in Procs :
       (Starts(p) /\ Blank(call'[p].arg)) =>
         /\ call'[p].pc = "done"
         /\ call'[p].ret = Null
         /\ call'[p].called = <<>>
         /\ call'[p].requests = 0
         /\ UNCHANGED <<routeCache, routeSourceStats>>]_vars

C4_Witness ==
  /\ \E p \in Procs :
       /\ call[p].pc = "done"
       /\ call[p].arg = <<" ", "\t">>
       /\ call[p].ret = Null
  /\ \E p \in Procs :
       /\ call[p].pc = "done"
       /\ call[p].arg = NoCallsign
  /\ routeCache = <<>>

\* C5: the order computed for an airline key lists the three sources by
\* descending success count, equal counts in the default order; a key without
\* recorded successes gets the default order.
C5_OrderSortedByCount ==
  orderOut # <<>> =>
    LET o == orderOut.order
        n == orderOut.counts
    IN /\ Len(o) = 3
       /\ {o[i] : i \in 1..3} = Sources
       /\ \A i \in 1..3, j \in 1..3 :
            i < j =>
              \/ n[o[i]] > n[o[j]]
              \/ n[o[i]] = n[o[j]] /\ DefaultIndex(o[i]) < DefaultIndex(o[j])
       /\ (~orderOut.known \/ \A s \in Sources : n[s] = 0) => o = defaultOrder

C5_Witness ==
  /\ orderOut # <<>>
  /\ orderOut.airlineKey = ACA
  /\ orderOut.counts = [adsbdb |-> 1, aerodatabox |-> 1, aviationstack |-> 2]
  /\ orderOut.order = <<"aviationstack", "adsbdb", "aerodatabox">>

\* C6 as stated: when a resolution of an uncached callsign starts, every
\* source with at least one recorded success for its airline key is the
\* source it tries first.
C6_AnySourceWithSuccessFirst ==
  [][\A p \in Procs :
       (Starts(p) /\ InFlight(call'[p])) =>
         \A x \in Sources :
           Count(routeSourceStats, call'[p].airlineKey, x) >= 1
             => call'[p].called[1] = x]_vars

\* C6 amended: when a resolution of an uncached callsign starts, a source X
\* with at least one recorded success for its airline key is tried first,
\* provided no other source has more successes for that key, or as many and
\* an earlier place in the default order.
C6_LeadingSourceFirst ==
  [][\A p \in Procs :
       (Starts(p) /\ InFlight(call'[p])) =>
         \A x \in Sources :
           LET n(s) == Count(routeSourceStats, call'[p].airlineKey, s)
           IN ( /\ n(x) >= 1
                /\ \A y \in Sources \ {x} :
                     \/ n(y) < n(x)
                     \/ n(y) = n(x) /\ DefaultIndex(x) < DefaultIndex(y) )
              => call'[p].called[1] = x]_vars

C6_Witness ==
  \E p \in Procs :
    /\ call[p].arg = ACA2
    /\ call[p].pc = "http"
    /\ call[p].called = <<"aerodatabox">>
    /\ ACA2 \notin DOMAIN routeCache
    /\ ACA \in DOMAIN routeSourceStats
    /\ routeSourceStats[ACA] = [adsbdb |-> 0, aerodatabox |-> 1, aviationstack |-> 0]

\* C7: within a resolution the adapters are invoked in the computed order,
\* each after the previous one has returned without a usable result; after a
\* fully-populated result no further adapter is invoked, and the resolution
\* returns that result.
C7_SequentialFirstResultWins ==
  \A p \in Procs :
    LET c == call[p]
        invoked  == Len(c.called)
        answered == Len(c.results)
    IN /\ invoked <= Len(c.sourceOrder)
       /\ c.called = SubSeq(c.sourceOrder, 1, invoked)
       /\ InFlight(c) => answered = invoked - 1
       /\ c.pc \in {"idle", "done"} => answered = invoked
       /\ \A i \in 1..answered :
            FullyPopulated(c.results[i]) =>
              /\ i = answered
              /\ c.pc = "done"
              /\ c.ret = c.results[i]
       /\ (c.pc = "done" /\ invoked > 0 /\ ~FullyPopulated(c.results[answered]))
            => c.ret = Null /\ invoked = 3

C7_Witness ==
  \E p \in Procs :
    /\ call[p].pc = "done"
    /\ call[p].called = <<"adsbdb", "aerodatabox">>
    /\ call[p].results[1] = Null
    /\ FullyPopulated(call[p].results[2])
    /\ call[p].ret = call[p].results[2]

\* C8: when the adapter S of a resolution with key k and airline key a has
\* returned a fully-populated result, the resolution adds exactly 1 to the
\* count of (a, S), changes no other count, sets the entry of k to the result
\* and returns it.
C8_SuccessRecordedOnce ==
  [][\A p \in Procs :
       ( /\ call[p].pc = "resolved"
         /\ call'[p] # call[p]
         /\ FullyPopulated(call[p].result) ) =>
         LET a == call[p].airlineKey
             S == call[p].sourceOrder[call[p].idx]
         IN /\ Count(routeSourceStats', a, S) = Count(routeSourceStats, a, S) + 1
            /\ \A b \in StatsKeys, t \in Sources :
                 <<b, t>> # <<a, S>> =>
                   Count(routeSourceStats', b, t) = Count(routeSourceStats, b, t)
            /\ call[p].key \in DOMAIN routeCache'
            /\ routeCache'[call[p].key] = call[p].result
            /\ call'[p].pc = "done"
            /\ call'[p].ret = call[p].result]_vars

C8_Witness ==
  \E p \in Procs :
    /\ call[p].pc = "done"
    /\ call[p].arg = ACA2
    /\ FullyPopulated(call[p].ret)
    /\ call[p].called = <<"aviationstack">>
    /\ ACA \in DOMAIN routeSourceStats
    /\ routeSourceStats[ACA] = [adsbdb |-> 0, aerodatabox |-> 0, aviationstack |-> 2]
    /\ ACA2 \in DOMAIN routeCache
    /\ routeCache[ACA2] = call[p].ret

\* C9: an entry of the cache, once created, is never removed and never
\* changes its value.
C9_CacheEntriesNeverChange ==
  [][\A k \in DOMAIN routeCache :
       /\ k \in DOMAIN routeCache'
       /\ routeCache'[k] = routeCache[k]]_vars

\* C10: a resolution that starts while the cache has no entry for its
\* callsign misses the cache and runs its own adapter chain, also when
\* another resolution of the same callsign is in flight; the steps of one
\* resolution leave the frame of every other resolution alone.
C10_ConcurrentLookupsNotCoalesced ==
  [][\A p \in Procs :
       /\ ( /\ Starts(p)
            /\ ~Blank(call'[p].arg)
            /\ \A k \in DOMAIN routeCache : ~SameCallsign(k, call'[p].arg) )
          => /\ InFlight(call'[p])
             /\ Len(call'[p].called) = 1
             /\ call'[p].results = <<>>
       /\ \A q \in Procs \ {p} :
            call'[p] # call[p] => call'[q] = call[q]]_vars

C10_Witness ==
  /\ call["r1"].pc = "done"
  /\ call["r2"].pc = "done"
  /\ call["r1"].arg = ACA1
  /\ call["r2"].arg = aca1Padded
  /\ call["r1"].key = call["r2"].key
  /\ Len(call["r1"].called) = 3
  /\ Len(call["r2"].called) = 3
  /\ call["r1"].requests >= 1
  /\ call["r2"].requests >= 1

\* ------------------------------------------------------------------------
\* Properties of the reference data store
\* ------------------------------------------------------------------------

\* The lookup of l enters getAirportDisplay in this step.
LookupStarts(l) == lookup[l].pc = "idle" /\ lookup'[l].pc # "idle"

\* The string `a, b`.
CommaJoin(a, b) == a \o <<",", " ">> \o b

\* C11: each reference dataset is fetched at most once, whatever the
\* interleaving of the display lookups: a lookup that arrives while the first
\* load is in flight issues no request of its own.
C11_EachDatasetFetchedOnce ==
  /\ fetches.airports <= 1
  /\ fetches.countries <= 1

\* C12: a load whose request fails does not throw: it assigns the empty
\* object to its table and returns it; the lookup that awaited it returns
\* null (airports) or a name without ISO-2 code (countries); and no lookup
\* that starts after a failed load of a dataset has completed issues a
\* request for that dataset.
C12_FailedLoadDegradesWithoutRetry ==
  [][\A l \in Lookups :
       /\ ( lookup[l].airports.state = "fetching" /\ lookup'[l].airports.failed )
            => /\ airportsByIcao' = Loaded(<<>>)
               /\ lookup'[l].airports.state = "returned"
               /\ lookup'[l].airports.value = <<>>
       /\ ( lookup[l].countries.state = "fetching" /\ lookup'[l].countries.failed )
            => /\ countryNameToIso2' = Loaded(<<>>)
               /\ lookup'[l].countries.state = "returned"
               /\ lookup'[l].countries.value = <<>>
       /\ ( lookup'[l].pc = "done" /\ lookup'[l].airports.failed )
            => lookup'[l].ret = Null
       /\ ( lookup'[l].pc = "done" /\ lookup'[l].countries.failed )
            => \/ lookup'[l].ret = Null
               \/ \E k \in DOMAIN lookup'[l].airports.value :
                    LET info == lookup'[l].airports.value[k]
                    IN lookup'[l].ret \in
                         { Str(CommaJoin(info.city, info.countryName)),
                           Str(info.city), Str(info.countryName) }
       /\ ( LookupStarts(l) /\ "failed" \in loads.airports )
            => fetches'.airports = fetches.airports
       /\ ( LookupStarts(l) /\ "failed" \in loads.countries )
            => fetches'.countries = fetches.countries]_vars

\* The airport load of one lookup failed and the lookup returned null; the
\* other lookup, for a code of the airport file, found the empty table set,
\* issued no request for the airports and returned null: the airport file was
\* requested once.
C12_Witness ==
  \E l, m \in Lookups :
    /\ lookup[l].pc = "done"
    /\ lookup[l].airports.failed
    /\ lookup[l].ret = Null
    /\ lookup[m].pc = "done"
    /\ lookup[m].icaoCode = cyyz
    /\ ~lookup[m].airports.fetched
    /\ lookup[m].airports.value = <<>>
    /\ lookup[m].ret = Null
    /\ fetches.airports = 1

\* C13: a table that a completed load has set is never assigned again: in
\* particular a populated table is never replaced by an empty one.
C13_TablesAreImmutableOnceSet ==
  [][/\ isSet(airportsByIcao) => airportsByIcao' = airportsByIcao
     /\ isSet(countryNameToIso2) => countryNameToIso2' = countryNameToIso2]_vars

\* C14: the display name is "city, ISO-2" when the city is populated and the
\* country name has an ISO-2 code; else "city, country name" when both are
\* populated; else the city alone; else the country name alone; and null when
\* the code has no airport record or the record has neither field.
C14_DisplayNamePriority ==
  displayCall.pc = "returned" =>
    LET d      == displayCall
        hasRec == d.icaoCode # <<>> /\ toUpperCase(d.icaoCode) \in DOMAIN d.airports
        info   == d.airports[toUpperCase(d.icaoCode)]
        hasIso == info.countryName \in DOMAIN d.countries
    IN /\ ~hasRec => d.ret = Null
       /\ hasRec =>
            /\ (info.city # <<>> /\ hasIso)
                 => d.ret = Str(CommaJoin(info.city, d.countries[info.countryName]))
            /\ (info.city # <<>> /\ info.countryName # <<>> /\ ~hasIso)
                 => d.ret = Str(CommaJoin(info.city, info.countryName))
            /\ (info.city # <<>> /\ info.countryName = <<>>)
                 => d.ret = Str(info.city)
            /\ (info.city = <<>> /\ info.countryName # <<>>)
                 => d.ret = Str(info.countryName)
            /\ (info.city = <<>> /\ info.countryName = <<>>)
                 => d.ret = Null

\* A lower-case code whose record has a city and a country, the country
\* table having a code for another country only: "Toronto, Atlantis".
C14_Witness ==
  /\ displayCall.pc = "returned"
  /\ displayCall.icaoCode = cyyz
  /\ DOMAIN displayCall.countries = {Canada}
  /\ displayCall.ret = Str(Chars("Toronto, Atlantis"))

\* ------------------------------------------------------------------------
\* Properties of the adapters
\* ------------------------------------------------------------------------

\* The adapter of the source has the API key it needs, or needs none.
HasKey(source) ==
  \/ source = "adsbdb"
  \/ source = "aerodatabox" /\ aerodataboxKey
  \/ source = "aviationstack" /\ aviationstackKey

\* The largest number of requests the adapters called so far by c may have
\* issued, none being allowed to an adapter without key.
RECURSIVE RequestBudget(_, _)
RequestBudget(c, n) ==
  IF n = 0 THEN 0
  ELSE RequestBudget(c, n - 1) +
         ( IF ~HasKey(c.called[n]) THEN 0
           ELSE IF c.called[n] = "aerodatabox"
             THEN Len(buildFlightNumberCandidates(c.key))
             ELSE 1 )

\* C15: an adapter whose API key is absent returns no result without issuing
\* a request and without raising an error, and the resolver goes on with the
\* next source of its order.
C15_KeylessAdapterIsSilent ==
  \A p \in Procs :
    LET c == call[p]
    IN /\ \A i \in 1..Len(c.results) :
            ~HasKey(c.called[i]) =>
              /\ c.results[i] = Null
              /\ i < Len(c.sourceOrder) => Len(c.called) > i
       /\ (InFlight(c) /\ ~HasKey(c.called[Len(c.called)])) =>
            /\ c.pc = "resolved"
            /\ c.result = Null
       /\ c.requests <= RequestBudget(c, Len(c.called))

\* Without the AeroDataBox key, a resolution of ACA1 went through the three
\* sources in the default order with two requests in all: adsbdb gave no
\* result, aerodatabox returned null without a request, aviationstack gave
\* the route.
C15_Witness ==
  /\ ~aerodataboxKey
  /\ aviationstackKey
  /\ \E p \in Procs :
       /\ call[p].pc = "done"
       /\ call[p].key = ACA1
       /\ call[p].called = defaultOrder
       /\ call[p].results[2] = Null
       /\ FullyPopulated(call[p].ret)
       /\ call[p].requests = 2

\* C16: whatever the outcome of its request or requests (usable payload,
\* empty or malformed payload, timeout, network error, error status), an
\* adapter returns null or a route with both codes populated.
C16_AdapterReturnsNullOrPopulatedRoute ==
  adapterCall.pc = "returned" =>
    \/ adapterCall.ret = Null
    \/ FullyPopulated(adapterCall.ret)

\* ------------------------------------------------------------------------
\* Properties of the enricher
\* ------------------------------------------------------------------------

\* The enrichment of a record as a function of what its own awaited calls
\* yielded: the record itself without callsign or without route, and the
\* record with the two codes of the route and the two names otherwise.
Enriched(rec, t) ==
  IF Falsy(rec.callsign) \/ t.route = Null THEN rec
  ELSE [rec EXCEPT !.originIcao = Str(t.route.originIcao),
                   !.destinationIcao = Str(t.route.destinationIcao),
                   !.originDisplay = t.displays.origin,
                   !.destinationDisplay = t.displays.destination]

\* The four fields enrichment sets are absent.
NoRouteFields(ac) ==
  /\ ac.originIcao = Null
  /\ ac.destinationIcao = Null
  /\ ac.originDisplay = Null
  /\ ac.destinationDisplay = Null

\* C17: enrich returns its batch only after every task of a record has
\* completed; the batch has as many records as the input, and its i-th
\* record is the enrichment of the i-th input record, in whatever order the
\* tasks completed.
C17_BatchKeepsOrderAndSize ==
  enrichOut.status = "fulfilled" =>
    /\ \A i \in 1..Len(task) : task[i].pc = "returned"
    /\ Len(enrichOut.value) = Len(aircraftList)
    /\ \A i \in 1..Len(aircraftList) :
         /\ enrichOut.value[i].icao24 = aircraftList[i].icao24
         /\ task[i].failed = "no" =>
              enrichOut.value[i] = Enriched(aircraftList[i], task[i])

\* The task of the second record completed before the task of the first,
\* and the batch has the first record, with its names, in the first place.
C17_Witness ==
  /\ enrichOut.status = "fulfilled"
  /\ finished = <<2, 1>>
  /\ enrichOut.value[1].icao24 = aircraftList[1].icao24
  /\ enrichOut.value[1].originDisplay = Str(Chars("Toronto, CA"))
  /\ enrichOut.value[2].callsign = ACA2

\* C18: when the resolution or a display lookup of one record throws, enrich
\* does not fail: it returns a batch of the size of the input, in the order
\* of the input, in which every other record is enriched as its own
\* resolution and lookups determine.
C18_FailureOfOneRecordIsContained ==
  /\ enrichOut.status # "rejected"
  /\ \A i \in 1..Len(task) : task[i].pc # "rejected"
  /\ ( /\ enrichOut.status = "fulfilled"
       /\ \E i \in 1..Len(task) : task[i].failed # "no" )
       => /\ Len(enrichOut.value) = Len(aircraftList)
          /\ \A j \in 1..Len(aircraftList) :
               /\ enrichOut.value[j].icao24 = aircraftList[j].icao24
               /\ task[j].failed = "no" =>
                    enrichOut.value[j] = Enriched(aircraftList[j], task[j])

\* The resolution of the first record threw, the second record has its
\* route and its names, and the batch has both records in their places.
C18_Witness ==
  /\ enrichOut.status = "fulfilled"
  /\ Len(enrichOut.value) = 2
  /\ task[1].failed = "resolution"
  /\ task[2].failed = "no"
  /\ enrichOut.value[1] = aircraftList[1]
  /\ enrichOut.value[2].originIcao = Str(CYYZ)
  /\ enrichOut.value[2].destinationDisplay = Str(Chars("Los Angeles, US"))

C20_RecordsWithoutRoutePassThrough ==
  \A i \in 1..Len(task) :
    /\ Falsy(aircraftList[i].callsign) =>
         /\ task[i].pc = "returned"
         /\ ~task[i].resolutionStarted
         /\ task[i].lookupsStarted = {}
         /\ task[i].ac = aircraftList[i]
         /\ NoRouteFields(task[i].ac)
    /\ task[i].route = Null =>
         /\ task[i].pc = "returned"
         /\ task[i].lookupsStarted = {}
         /\ task[i].ac = aircraftList[i]
         /\ NoRouteFields(task[i].ac)
    /\ ( enrichOut.status = "fulfilled"
         /\ (Falsy(aircraftList[i].callsign) \/ task[i].route = Null) )
         => enrichOut.value[i] = aircraftList[i]

\* A batch of a record without callsign and a record whose resolution gave
\* no route has been returned.
C20_Witness ==
  /\ enrichOut.status = "fulfilled"
  /\ Len(aircraftList) = 2
  /\ Falsy(aircraftList[1].callsign)
  /\ ~task[1].resolutionStarted
  /\ task[2].resolutionStarted
  /\ task[2].route = Null
  /\ enrichOut.value = aircraftList

\* ------------------------------------------------------------------------
\* Properties of the statistics over time
\* ------------------------------------------------------------------------

\* The source tried first for an airline key.
FirstSource(airlineKey) == getRouteSourceOrderForAirline(airlineKey)[1]

\* C21 as stated: a source with a recorded success that is first in the
\* try-order of an airline key is first in that try-order in the next state,
\* and so in every later state, whichever sources answer meanwhile.
C21_FirstSourceStaysFirst ==
  [][\A a \in OrderAirlineKeys, x \in Sources :
       (FirstSource(a) = x /\ Count(routeSourceStats, a, x) >= 1)
         => FirstSource(a)' = x]_vars

\* C21 amended: the count of a source that is first for an airline key never
\* decreases, and the source stays first unless the step records a success
\* of another source that brings its count above that of the first source,
\* or level with it for a source earlier in the default order.
C21_FirstSourceUntilOvertaken ==
  [][routeSourceStats' # routeSourceStats =>
       \A a \in OrderAirlineKeys :
         LET x == FirstSource(a)
             y == FirstSource(a)'
         IN Count(routeSourceStats, a, x) >= 1
              => /\ Count(routeSourceStats', a, x) >= Count(routeSourceStats, a, x)
                 /\ \/ y = x
                    \/ /\ Count(routeSourceStats', a, y)
                            = Count(routeSourceStats, a, y) + 1
                       /\ \/ Count(routeSourceStats', a, y)
                               > Count(routeSourceStats', a, x)
                          \/ /\ Count(routeSourceStats', a, y)
                                  = Count(routeSourceStats', a, x)
                             /\ DefaultIndex(y) < DefaultIndex(x)]_vars

\* A resolution that started with aviationstack first for ACA got nothing
\* from it and its route from another source; aviationstack, with two
\* successes against one, is still first for ACA.
C21_Witness ==
  /\ ACA \in DOMAIN routeSourceStats
  /\ routeSourceStats[ACA].aviationstack = 2
  /\ FirstSource(ACA) = "aviationstack"
  /\ \E p \in Procs :
       /\ call[p].pc = "done"
       /\ call[p].airlineKey = ACA
       /\ call[p].sourceOrder[1] = "aviationstack"
       /\ call[p].results[1] = Null
       /\ FullyPopulated(call[p].ret)

\* ------------------------------------------------------------------------
\* Properties of the flight-number adapter
\* ------------------------------------------------------------------------

\* cs matches /^[A-Z]{2,3}\d{1,4}$/ with a prefix of n letters.
MatchesFlightPattern(cs, n) ==
  /\ n \in 2..3
  /\ Len(cs) - n \in 1..4
  /\ \A i \in 1..n : IsUpperLetter(cs[i])
  /\ \A i \in (n + 1)..Len(cs) : cs[i] \in Digits

\* C22: the candidates of a callsign that matches ^[A-Z]{2,3}\d{1,4}$ are the
\* ICAO-prefixed form, followed by the IATA-prefixed form exactly when the
\* static table has an entry for the prefix: one or two candidates, never
\* twice the same; a callsign that does not match has no candidate, and the
\* adapter returns null without a request.
C22_CandidatesOfCallsign ==
  (adapterCall.pc = "returned" /\ adapterCall.source = "aerodatabox"
     /\ aerodataboxKey)
    => LET cs == toUpperCase(trim(adapterCall.key))
           cands == adapterCall.candidates
       IN IF \E n \in 2..3 : MatchesFlightPattern(cs, n)
            THEN \A n \in 2..3 :
                   MatchesFlightPattern(cs, n) =>
                     LET prefix == SubSeq(cs, 1, n)
                         digits == SubSeq(cs, n + 1, Len(cs))
                     IN /\ cands[1] = cs
                        /\ IF \E e \in ICAO_TO_IATA : e[1] = prefix
                             THEN /\ Len(cands) = 2
                                  /\ \E e \in ICAO_TO_IATA :
                                       /\ e[1] = prefix
                                       /\ cands[2] = e[2] \o digits
                                  /\ cands[2] # cands[1]
                             ELSE Len(cands) = 1
            ELSE /\ cands = <<>>
                 /\ adapterCall.ret = Null
                 /\ adapterCall.requests = <<>>

\* The call for ACA1 had the candidates ACA1 and AC1.
C22_Witness ==
  /\ adapterCall.pc = "returned"
  /\ adapterCall.source = "aerodatabox"
  /\ aerodataboxKey
  /\ adapterCall.key = ACA1
  /\ adapterCall.candidates = <<ACA1, <<"A","C","1">>>>

\* The answer to the k-th request of the call yields both codes.
YieldsBothCodes(k) ==
  /\ aerodataboxResult(adapterCall.resps[k]) # Null
  /\ FullyPopulated(aerodataboxResult(adapterCall.resps[k]))

\* C23: the flight-number adapter requests its candidates in list order up
\* to and including the first one whose answer yields both codes and returns
\* the route of that answer; an answer that is an error or lacks a code does
\* not stop the loop, and the adapter returns null when no candidate yields
\* both codes.
C23_LoopStopsAtFirstFullAnswer ==
  (adapterCall.pc = "returned" /\ adapterCall.source = "aerodatabox"
     /\ aerodataboxKey)
    => LET cands == adapterCall.candidates
           hits  == {k \in 1..Len(cands) : YieldsBothCodes(k)}
       IN IF hits = {}
            THEN /\ adapterCall.requests = cands
                 /\ adapterCall.ret = Null
            ELSE LET m == CHOOSE k \in hits : \A j \in hits : k <= j
                 IN /\ adapterCall.requests = SubSeq(cands, 1, m)
                    /\ adapterCall.ret = aerodataboxResult(adapterCall.resps[m])

\* ------------------------------------------------------------------------
\* Properties of the primary adapter
\* ------------------------------------------------------------------------

\* C24 as stated: the primary adapter returns a route only when the
\* top-level pair holds both an origin and a destination, or the nested
\* route pair holds both.
C24_BothFromOnePair ==
  (adapterCall.pc = "returned" /\ adapterCall.source = "adsbdb"
     /\ adapterCall.ret # Null)
    => LET r == adapterCall.resps[1]
       IN \/ ~Falsy(r.origin) /\ ~Falsy(r.destination)
          \/ r.hasRoute /\ ~Falsy(r.routeOrigin) /\ ~Falsy(r.routeDestination)

\* C24 amended: the primary adapter takes each of origin and destination
\* from the top level of the payload or, when the top-level value is missing,
\* from the nested route; it returns null when the request failed or one of
\* the two is missing in both places, and otherwise the route of the two
\* values as upper-cased text, which may come from different pairs.
C24_EachFieldFromEitherPair ==
  (adapterCall.pc = "returned" /\ adapterCall.source = "adsbdb")
    => LET r == adapterCall.resps[1]
           o == IF ~Falsy(r.origin) THEN r.origin
                ELSE IF r.hasRoute THEN r.routeOrigin ELSE <<>>
           d == IF ~Falsy(r.destination) THEN r.destination
                ELSE IF r.hasRoute THEN r.routeDestination ELSE <<>>
       IN adapterCall.ret =
            IF ~r.ok \/ Falsy(o) \/ Falsy(d) THEN Null
            ELSE Route(toUpperCase(String(o)), toUpperCase(String(d)))

\* A payload with the origin at top level and the destination in the nested
\* route only gave the route CYYZ-KLAX.
C24_Witness ==
  /\ adapterCall.pc = "returned"
  /\ adapterCall.source = "adsbdb"
  /\ adapterCall.resps[1] = AdsbdbResponse(TRUE, cyyz, <<>>, TRUE, <<>>, KLAX)
  /\ adapterCall.ret = Route(CYYZ, KLAX)

\* ------------------------------------------------------------------------
\* Properties of the cached values
\* ------------------------------------------------------------------------

\* A code without lower-case letter.
IsUpperCased(code) == code = toUpperCase(code)

\* The adapter results the frame p has received so far.
Received(p) == {call[p].results[i] : i \in 1..Len(call[p].results)}

\* C25: every cache entry is null or a route whose two codes are both
\* populated and upper-cased, whatever the case of the payload; a partially
\* populated result is never cached.
C25_CacheHoldsNullOrFullUpperCasedRoute ==
  \A k \in DOMAIN routeCache :
    \/ routeCache[k] = Null
    \/ /\ FullyPopulated(routeCache[k])
       /\ IsUpperCased(routeCache[k].originIcao)
       /\ IsUpperCased(routeCache[k].destinationIcao)

\* A resolution of ACA1 received a result without origin code from one
\* source and then the route of a lower-case payload from another; the cache
\* holds CYYZ-KLAX for ACA1.
C25_Witness ==
  /\ ACA1 \in DOMAIN routeCache
  /\ routeCache[ACA1] = Route(CYYZ, KLAX)
  /\ \E p \in Procs :
       /\ call[p].pc = "done"
       /\ call[p].key = ACA1
       /\ Route(<<>>, KLAX) \in Received(p)
       /\ call[p].ret = Route(CYYZ, KLAX)

\* ------------------------------------------------------------------------
\* Properties of the order of the steps of one enrichment
\* ------------------------------------------------------------------------

\* value is a route.
IsRoute(value) == value \notin {Null, Thrown, Pending}

\* C26: in the enrichment of one record no display lookup has started unless
\* the route resolution has completed with a route; while the task awaits the
\* display lookups both have been started; and a display field is written
\* only when both lookups have completed.
C26_ResolutionThenBothLookupsThenFields ==
  \A i \in 1..Len(task) :
    LET t == task[i]
    IN /\ t.lookupsStarted # {} => (IsRoute(t.route) /\ t.resolutionStarted)
       /\ t.pc = "displaying" => t.lookupsStarted = {"origin", "destination"}
       /\ t.pc \in {"resolving", "displaying"}
            => (t.ac.originDisplay = Null /\ t.ac.destinationDisplay = Null)
       /\ (t.ac.originDisplay # Null \/ t.ac.destinationDisplay # Null)
            => /\ t.displays.origin \notin {Pending, Thrown}
               /\ t.displays.destination \notin {Pending, Thrown}

\* A task has the destination name while the origin lookup is still
\* pending: both lookups were started, and no display field is written yet.
C26_Witness ==
  \E i \in 1..Len(task) :
    /\ task[i].pc = "displaying"
    /\ task[i].route = Route(CYYZ, KLAX)
    /\ task[i].displays.origin = Pending
    /\ task[i].displays.destination = Str(Chars("Los Angeles, US"))
    /\ task[i].ac.destinationDisplay = Null

\* ------------------------------------------------------------------------
\* Properties of the geometry fields
\* ------------------------------------------------------------------------

\* The raw value is a number or a text that spells one.
IsNumeric(value) ==
  \/ value.kind \in {"number", "Infinity"}
  \/ value.kind = "string" /\ trim(value.value) # <<>> /\ Number(value) # NaN

\* C27: for a raw record whose latitude or longitude is missing (null or
\* undefined) or not a number, baseFormatAircraft calls no geometry function
\* and the three derived fields bearingDeg, lookDirection and distanceKm of
\* the formatted record are null.
C27_NoGeometryWithoutCoordinates ==
  (formatCall.pc = "returned"
     /\ (~IsNumeric(formatCall.ac.lat) \/ ~IsNumeric(formatCall.ac.lon)))
    => /\ formatCall.ret.called = {}
       /\ formatCall.ret.bearingDeg = Null
       /\ formatCall.ret.lookDirection = Null
       /\ formatCall.ret.distanceKm = Null

\* ------------------------------------------------------------------------
\* Properties of the compass point
\* ------------------------------------------------------------------------

\* The compass points in clockwise order from north.
Compass == <<"N", "NE", "E", "SE", "S", "SW", "W", "NW">>

\* The bearing b lies in the 45-degree sector centred on the k-th compass
\* point (from 0), the sector of north lying on both sides of 0.
InSector(b, k) ==
  \/ HalfDegrees(90) * k - HalfDegrees(45) <= b
       /\ b < HalfDegrees(90) * k + HalfDegrees(45)
  \/ k = 0 /\ HalfDegrees(720) - HalfDegrees(45) <= b

\* C28: for every bearing b of [0, 360) the direction is the element at
\* index floor((b + 22.5) / 45) mod 8 of N, NE, E, SE, S, SW, W, NW: the
\* compass point on which the 45-degree sector of b is centred, and N for
\* the bearings of [337.5, 360).
C28_DirectionIsCentredSector ==
  directionCall.pc = "returned"
    => LET b == directionCall.brng
       IN /\ directionCall.ret
               = Compass[(((b + HalfDegrees(45)) \div HalfDegrees(90)) % 8) + 1]
          /\ \E k \in 0..7 : directionCall.ret = Compass[k + 1] /\ InSector(b, k)
          /\ b >= HalfDegrees(675) => directionCall.ret = "N"

\* The call for the bearing 337.5, the start of the wrapping sector, gave N.
C28_Witness ==
  /\ directionCall.pc = "returned"
  /\ directionCall.brng = HalfDegrees(675)
  /\ directionCall.ret = "N"

\* ------------------------------------------------------------------------
\* Properties of the lifetime of the statistics
\* ------------------------------------------------------------------------

\* C29: the statistics are never reset: no step removes an airline key, and
\* the count of every (airline key, source) pair is non-negative and does
\* not decrease from one state to the next.
C29_StatsNeverReset ==
  [][\A a \in DOMAIN routeSourceStats :
       /\ a \in DOMAIN routeSourceStats'
       /\ \A s \in Sources :
            /\ routeSourceStats[a][s] >= 0
            /\ routeSourceStats'[a][s] >= routeSourceStats[a][s]]_vars

\* Both airline keys have a record, ACA with a success of adsbdb and
\* DEFAULT with a success of aviationstack.
C29_Witness ==
  /\ DOMAIN routeSourceStats = {ACA, DEFAULT}
  /\ routeSourceStats[ACA].adsbdb >= 1
  /\ routeSourceStats[DEFAULT].aviationstack >= 1

\* ------------------------------------------------------------------------
\* Properties of the airline key
\* ------------------------------------------------------------------------

\* The first n characters of key are its leading run of letters.
IsLeadingRun(key, n) ==
  /\ n \in 0..Len(key)
  /\ \A i \in 1..n : IsUpperLetter(key[i])
  /\ n < Len(key) => ~IsUpperLetter(key[n + 1])

\* The airline key of a normalized callsign: its leading letters, DEFAULT
\* when there is none.
AirlineKeyOf(key) ==
  LET n == CHOOSE m \in 0..Len(key) : IsLeadingRun(key, m)
  IN IF n = 0 THEN DEFAULT ELSE SubSeq(key, 1, n)

\* C30: a resolution that goes past the cache reads the statistics under the
\* leading run of letters of its normalized callsign, or under DEFAULT when
\* the callsign does not start with a letter: its try-order is the order of
\* that key; and the resolution records its success under that same key and
\* changes the record of no other key.
C30_OneAirlineKeyPerResolution ==
  [][\A p \in Procs :
       /\ (call[p].pc = "idle" /\ call'[p].pc \in {"http", "resolved"})
            => /\ call'[p].key = normalizeCallsign(call'[p].arg)
               /\ call'[p].airlineKey = AirlineKeyOf(call'[p].key)
               /\ call'[p].sourceOrder
                    = getRouteSourceOrderForAirline(AirlineKeyOf(call'[p].key))
       /\ (call[p].pc = "resolved" /\ call'[p] # call[p]
             /\ routeSourceStats' # routeSourceStats)
            => /\ call[p].airlineKey = AirlineKeyOf(call[p].key)
               /\ AirlineKeyOf(call[p].key) \in DOMAIN routeSourceStats'
               /\ \A b \in StatsKeys, s \in Sources :
                    b # AirlineKeyOf(call[p].key)
                      => Count(routeSourceStats', b, s)
                           = Count(routeSourceStats, b, s)]_vars

\* Two resolutions, of " aca1\t" and of ACA2, have each succeeded with
\* adsbdb, and the one record of ACA counts both successes.
C30_Witness ==
  \E p \in Procs, q \in Procs :
    /\ call[p].pc = "done"
    /\ call[p].arg = aca1Padded
    /\ call[p].called = <<"adsbdb">>
    /\ FullyPopulated(call[p].ret)
    /\ call[q].pc = "done"
    /\ call[q].arg = ACA2
    /\ call[q].called = <<"adsbdb">>
    /\ FullyPopulated(call[q].ret)
    /\ DOMAIN routeSourceStats = {ACA}
    /\ routeSourceStats[ACA] = [adsbdb |-> 2, aerodatabox |-> 0, aviationstack |-> 0]

\* ------------------------------------------------------------------------
\* Properties of parseCsvLine
\* ------------------------------------------------------------------------

\* The field values of the encoded lines: up to two characters.
CsvFields == UNION { [1..n -> {"a", ",", "\""}] : n \in 0..2 }

\* f with every quote doubled.
RECURSIVE Doubled(_)
Doubled(f) ==
  IF f = <<>> THEN <<>>
  ELSE (IF Head(f) = "\"" THEN <<"\"", "\"">> ELSE <<Head(f)>>) \o Doubled(Tail(f))

\* The RFC 4180 forms of a field: enclosed in quotes with its quotes
\* doubled, or as it is when it holds neither comma nor quote.
EncodingsOf(f) ==
  { <<"\"">> \o Doubled(f) \o <<"\"">> }
    \cup (IF \A i \in 1..Len(f) : f[i] = "a" THEN {f} ELSE {})

\* The comma at position i of the line is outside quotes: an even number of
\* quote characters precedes it.
CommaOutsideQuotes(line, i) ==
  /\ line[i] = ","
  /\ Cardinality({j \in 1..(i - 1) : line[j] = "\""}) % 2 = 0

\* C31: parseCsvLine returns as many fields as the line has commas outside
\* quotes, plus one; and for a line that is the RFC 4180 form of a list of
\* fields it returns these fields: a comma inside a quoted field does not
\* split it, a doubled quote gives one quote character, and the enclosing
\* quotes are not part of the value.
C31_QuotedFields ==
  csvCall.pc = "returned"
    => LET line == csvCall.line
       IN /\ Len(csvCall.ret)
               = Cardinality({i \in 1..Len(line) : CommaOutsideQuotes(line, i)}) + 1
          /\ \A f \in CsvFields :
               line \in EncodingsOf(f) => csvCall.ret = <<f>>
          /\ \A f \in CsvFields, g \in CsvFields :
               (\E e \in EncodingsOf(f), d \in EncodingsOf(g) :
                  line = e \o <<",">> \o d)
                 => csvCall.ret = <<f, g>>

\* The line of a quote, a comma and three quotes gave the one field made of
\* a comma and a quote: the comma inside the quotes did not split, the
\* doubled quote gave one quote and the enclosing quotes are gone.
C31_Witness ==
  /\ csvCall.pc = "returned"
  /\ csvCall.line = <<"\"", ",", "\"", "\"", "\"">>
  /\ csvCall.ret = << <<",", "\"">> >>

\* ------------------------------------------------------------------------
\* The page
\* ------------------------------------------------------------------------

\* The call i of fetchAircraft has rendered a list in which the key is at
\* the position pt.
ReportedAt(i, key, pt) ==
  /\ fetchCall[i].pc = "done"
  /\ fetchCall[i].resp.ok
  /\ \E k \in 1..Len(fetchCall[i].resp.aircraft) :
       LET ac == fetchCall[i].resp.aircraft[k]
       IN /\ ~noPosition(ac)
          /\ trailKey(ac) = key
          /\ pt = [lat |-> ac.lat, lon |-> ac.lon]

\* The positions a list can hold.
TrailPoints ==
  UNION { { [lat |-> l[k].lat, lon |-> l[k].lon] : k \in 1..Len(l) } :
            l \in AircraftLists } \ {[lat |-> Null, lon |-> Null]}

\* The calls i and i + 1 are two refreshes one after the other, and the
\* second is the last thing the page did.
ConsecutiveRefreshes(i) ==
  /\ i + 1 = Len(fetchCall)
  /\ fetchCall[i + 1].after = 1..i
  /\ fetchCall[i + 1].pc = "done"

\* C32: trails persist across refreshes: an aircraft reported by two
\* consecutive refreshes at two different positions has, after the second
\* refresh, a trail that ends with these two positions.
C32_TrailOfTwoPointsAfterTwoRefreshes ==
  \A i \in 1..(Len(fetchCall) - 1) :
    \A key \in {"c01", "ACA2"}, p1 \in TrailPoints, p2 \in TrailPoints :
      (/\ ConsecutiveRefreshes(i)
       /\ ReportedAt(i, key, p1)
       /\ ReportedAt(i + 1, key, p2)
       /\ p1 # p2)
      => /\ key \in DOMAIN trails
         /\ Len(trails[key]) >= 2
         /\ SubSeq(trails[key], Len(trails[key]) - 1, Len(trails[key]))
              = <<p1, p2>>

\* Every call of fetchAircraft has completed, and there was one.
AllFetchesDone ==
  /\ fetchCall # <<>>
  /\ \A i \in 1..Len(fetchCall) : fetchCall[i].pc = "done"

\* What the page shows is what the call i rendered.
ShowsCall(i) ==
  IF fetchCall[i].resp.ok
    THEN /\ lastAircraft = fetchCall[i].resp.aircraft
         /\ statusText = FoundText(Len(fetchCall[i].resp.aircraft),
                                   fetchCall[i].location)
    ELSE statusText = ErrorText

\* C40: once all overlapping calls of fetchAircraft have completed, the
\* list and the status text shown are those of the call issued last, not
\* of the call whose response arrived last.
C40_LastIssuedRequestWins ==
  AllFetchesDone => ShowsCall(Len(fetchCall))

\* ------------------------------------------------------------------------
\* Resolutions in flight together
\* ------------------------------------------------------------------------

\* The successes recorded under an airline key, over the three sources.
SuccessesOf(a) ==
  Count(routeSourceStats, a, "adsbdb")
    + Count(routeSourceStats, a, "aerodatabox")
    + Count(routeSourceStats, a, "aviationstack")

\* The cached callsigns of an airline key whose entry is a route.
RoutedCallsigns(a) ==
  { k \in DOMAIN routeCache : AirlineKeyOf(k) = a /\ IsRoute(routeCache[k]) }

\* C33: for each airline key, the successes recorded over the three sources
\* are at most the cached callsigns of that key whose entry is a route: a
\* callsign contributes at most one success, also when several resolutions
\* of it are in flight at once.
C33_OneSuccessPerCachedRoute ==
  \A a \in DOMAIN routeSourceStats :
    SuccessesOf(a) <= Cardinality(RoutedCallsigns(a))

\* C34: the order of sources a resolution follows is computed once, when it
\* starts, from the statistics of that moment, and starting a resolution
\* changes no statistics, so resolutions started together compute their
\* orders from the same statistics; while the resolution is in flight its
\* order stays what it was, whatever other resolutions record, and each
\* adapter it calls is the next one of that order.
C34_OrderFixedAtStart ==
  [][\A p \in Procs :
       /\ (Starts(p) /\ InFlight(call'[p]))
            => /\ routeSourceStats' = routeSourceStats
               /\ call'[p].sourceOrder
                    = getRouteSourceOrderForAirline(call'[p].airlineKey)
       /\ InFlight(call[p])
            => /\ call'[p].sourceOrder = call[p].sourceOrder
               /\ Len(call'[p].called) > Len(call[p].called)
                    => call'[p].called
                         = Append(call[p].called,
                                  call[p].sourceOrder[Len(call[p].called) + 1])]_vars

\* A resolution of ACA1 that started with the default order is calling its
\* second adapter, aerodatabox, while the statistics, changed since by
\* another resolution, now put another source first for ACA.
C34_Witness ==
  \E p \in Procs :
    /\ InFlight(call[p])
    /\ call[p].arg = ACA1
    /\ call[p].sourceOrder = defaultOrder
    /\ call[p].called = <<"adsbdb", "aerodatabox">>
    /\ getRouteSourceOrderForAirline(ACA)[1] # "adsbdb"

\* The requests the adapters named in the sequence may issue: one for
\* adsbdb, two for AeroDataBox (one per candidate), one for AviationStack.
RECURSIVE RequestAllowance(_)
RequestAllowance(called) ==
  IF called = <<>> THEN 0
  ELSE (IF Head(called) = "aerodatabox" THEN 2 ELSE 1)
         + RequestAllowance(Tail(called))

\* C36: one call of resolveRoute invokes each adapter at most once and
\* issues at most four requests (one of adsbdb, at most two of AeroDataBox,
\* one of AviationStack); a call that returns before any adapter has
\* returned (a cache hit, an empty callsign) has called no adapter and
\* issued no request.
C36_AtMostFourRequests ==
  \A p \in Procs :
    LET c == call[p]
    IN /\ \A i \in 1..Len(c.called), j \in 1..Len(c.called) :
            c.called[i] = c.called[j] => i = j
       /\ c.requests <= RequestAllowance(c.called)
       /\ c.requests <= 4
       /\ (c.pc = "done" /\ c.results = <<>>)
            => /\ c.called = <<>>
               /\ c.requests = 0

\* A resolution of ACA1 has returned after the three adapters and four
\* requests, and a later call of ACA1 has returned from the cache without a
\* request.
C36_Witness ==
  \E p \in Procs, q \in Procs :
    /\ call[p].pc = "done"
    /\ call[p].arg = ACA1
    /\ Len(call[p].called) = 3
    /\ call[p].requests = 4
    /\ call[q].pc = "done"
    /\ call[q].arg = ACA1
    /\ call[q].called = <<>>
    /\ call[q].requests = 0

\* C35: an absent that was cached because every adapter call failed with an
\* upstream error stays: every resolution of the callsign that starts after
\* a resolution of it has returned that absent returns absent and calls no
\* adapter, whatever the adapters would answer now. (Under SpecOutage an
\* adapter returns null only after failed requests.)
C35_ErrorAbsentIsFinal ==
  [][\A p \in Procs :
       ( /\ Starts(p)
         /\ \E e \in completed :
              SameCallsign(e[1], call'[p].arg) /\ e[2] = Null )
       => /\ call'[p].pc = "done"
          /\ call'[p].ret = Null
          /\ call'[p].called = <<>>
          /\ call'[p].requests = 0]_vars

\* ------------------------------------------------------------------------
\* The records enrich returns
\* ------------------------------------------------------------------------

\* A field of a record holds a value.
Present(field) == field # Null

\* C38: on every record enrich returns, the two codes are both absent or
\* both present and a display string is present only with its code; a record
\* whose route was found and whose airports both resolved to nothing has
\* the codes of the route and no display string.
C38_CodesTogetherDisplayOnlyWithCode ==
  enrichOut.status = "fulfilled" =>
    \A k \in 1..Len(enrichOut.value) :
      LET ac == enrichOut.value[k]
          t  == task[k]
      IN /\ Present(ac.originIcao) <=> Present(ac.destinationIcao)
         /\ Present(ac.originDisplay) => Present(ac.originIcao)
         /\ Present(ac.destinationDisplay) => Present(ac.destinationIcao)
         /\ (IsRoute(t.route) /\ t.displays.origin = Null
               /\ t.displays.destination = Null)
              => /\ ac.originIcao = Str(t.route.originIcao)
                 /\ ac.destinationIcao = Str(t.route.destinationIcao)
                 /\ ~Present(ac.originDisplay)
                 /\ ~Present(ac.destinationDisplay)

\* A batch has returned with a record of ACA1 that has the codes CYYZ and
\* KLAX and no display string, both lookups having found nothing, and a
\* record without callsign that has neither codes nor display strings.
C38_Witness ==
  /\ enrichOut.status = "fulfilled"
  /\ Len(enrichOut.value) = 2
  /\ enrichOut.value[1].callsign = ACA1
  /\ enrichOut.value[1].originIcao = Str(CYYZ)
  /\ enrichOut.value[1].destinationIcao = Str(KLAX)
  /\ task[1].displays = [origin |-> Null, destination |-> Null]
  /\ enrichOut.value[1].originDisplay = Null
  /\ enrichOut.value[1].destinationDisplay = Null
  /\ enrichOut.value[2].callsign = <<>>
  /\ enrichOut.value[2].originIcao = Null

\* ------------------------------------------------------------------------
\* Properties of the writes of the statistics
\* ------------------------------------------------------------------------

\* C39: the statistics change only in the step in which a resolution whose
\* adapter has just returned a fully-populated result goes on: it returns
\* that result and at most its own airline key gets a record. Every other
\* step (a start that ends in a cache hit or on an empty callsign, the
\* answer of a service, a resolution going on without result) leaves them
\* unchanged, and every airline key with a record has a recorded success.
C39_StatsWrittenOnlyOnSuccess ==
  [][routeSourceStats' # routeSourceStats =>
       /\ \E p \in Procs :
            /\ call[p].pc = "resolved"
            /\ FullyPopulated(call[p].result)
            /\ call'[p].pc = "done"
            /\ call'[p].ret = call[p].result
            /\ DOMAIN routeSourceStats'
                 = DOMAIN routeSourceStats \cup {call[p].airlineKey}
       /\ \A a \in DOMAIN routeSourceStats' :
            \E s \in Sources : routeSourceStats'[a][s] >= 1]_vars

\* A resolution of ACA1 has returned a route of adsbdb and a resolution of
\* the callsign 42 has returned absent after the three adapters: ACA has a
\* record with the one success and DEFAULT, the key of 42, has none.
C39_Witness ==
  /\ DOMAIN routeSourceStats = {ACA}
  /\ routeSourceStats[ACA] = [adsbdb |-> 1, aerodatabox |-> 0, aviationstack |-> 0]
  /\ \E p \in Procs, q \in Procs :
       /\ call[p].pc = "done"
       /\ call[p].arg = ACA1
       /\ call[p].called = <<"adsbdb">>
       /\ FullyPopulated(call[p].ret)
       /\ call[q].pc = "done"
       /\ call[q].airlineKey = DEFAULT
       /\ Len(call[q].called) = 3
       /\ call[q].ret = Null

\* ------------------------------------------------------------------------
\* Termination
\* ------------------------------------------------------------------------

\* The call of the frame has returned and its callsign has a cache entry.
ReturnedWithEntry(c) ==
  /\ c.pc = "done"
  /\ hasOwnProperty(routeCache, c.key)

\* C37: if every outbound request eventually completes, every resolution
\* that awaits an adapter eventually returns, with the entry of its callsign
\* written in the cache, and every pending call of enrich eventually returns
\* its batch.
C37_ResolutionsAndBatchesReturn ==
  /\ \A p \in Procs : InFlight(call[p]) ~> ReturnedWithEntry(call[p])
  /\ (enrichOut.status = "pending") ~> (enrichOut.status = "fulfilled")

\* A batch of ACA1 and ACA2 has returned: both resolutions went through
\* adapters and have returned with their cache entries written.
C37_Witness ==
  /\ enrichOut.status = "fulfilled"
  /\ Len(enrichOut.value) = 2
  /\ \A k \in 1..2 :
       /\ ReturnedWithEntry(call[ProcOf[k]])
       /\ call[ProcOf[k]].called # <<>>
  /\ call[ProcOf[1]].arg = ACA1
  /\ call[ProcOf[2]].arg = ACA2

====
